---- MODULE Spec2Model ----
(***************************************************************************)
(* A model of the Portal Base cache layer (cached_api_client.py), of the   *)
(* remote client it wraps (base_api_client.py) and of the daily automation *)
(* (daily_automation.py, hubspot_automation.py).                           *)
(*                                                                         *)
(* Strings are sequences of character codes, so that split('/'), the       *)
(* f-string of convert_date, LIKE '%/YYYY' and Python's string comparison  *)
(* are computed as the code computes them.  SQL tables are sets of rows;   *)
(* the clock is a counter of ticks, TicksPerDay of them to a calendar day. *)
(***************************************************************************)
EXTENDS Integers, Sequences, FiniteSets, TLC

VARIABLES
    now,             \* the wall clock, read by datetime.now()
    contracts,       \* table contracts
    announcements,   \* table announcements
    cache_metadata,  \* table cache_metadata
    lastOp,          \* history: the last operation, the remote calls it made, its result,
                     \* whether it repeats the sync before it with the same remote data;
                     \* turn flips at every operation, so that no operation is a stuttering step
    dayLog,          \* history: per year, what the accesses of the current day did
    syncedOn,        \* history: per year, the day of its last fully successful sync
    ingested,        \* history: per id, the record the remote source gave last
    lastFilter,      \* the last call of filter_contracts: its arguments and its result
    sync,            \* the processes that run sync_year side by side: where each is, what
                     \* it fetched, who holds the write lock of the database, and
                     \* (history) the transactions committed, in order
    saved_searches,           \* table saved_searches
    processed_announcements,  \* the ledger of processed announcements
    daily_sync_log,           \* the run log of the daily automation
    deals,           \* the deals of the CRM
    run,             \* the automation process: where it is in main() and its locals
    runs,            \* history: the automation runs started so far
    crmCalls,        \* history: the calls made to the CRM, in order
    lastSearch       \* history: the last operation on the saved searches, what it
                     \* returned, and per name the filters saved under it

cacheVars == <<now, contracts, announcements, cache_metadata, lastOp, dayLog, syncedOn, ingested,
               lastFilter, sync>>

autoVars == <<saved_searches, processed_announcements, daily_sync_log, deals, run, runs, crmCalls,
              lastSearch>>

vars == <<cacheVars, autoVars>>

---------------------------------------------------------------------------
(* Bounds of the model *)

MaxDay == 2          \* the clock runs over the days 0 .. MaxDay
TicksPerDay == 2     \* instants told apart within one calendar day
MaxRecs == 1         \* longest list the remote source answers with
MaxRuns == 2         \* automation runs started

---------------------------------------------------------------------------
(* Strings *)

Slash == 47          \* '/'
Dash == 45           \* '-'
Digit(n) == 48 + n   \* '0' .. '9'

\* str(n) for 0 <= n, and its zero-padded forms %d / %m (two digits), %Y (four)
RECURSIVE str(_)
str(n) == IF n < 10 THEN <<Digit(n)>> ELSE str(n \div 10) \o <<Digit(n % 10)>>

Pad2(n) == <<Digit(n \div 10), Digit(n % 10)>>
Pad4(n) == <<Digit(n \div 1000), Digit((n \div 100) % 10), Digit((n \div 10) % 10), Digit(n % 10)>>

\* int(s) for a string of digits
RECURSIVE int(_)
int(s) == IF Len(s) = 0 THEN 0 ELSE 10 * int(SubSeq(s, 1, Len(s) - 1)) + (s[Len(s)] - 48)

\* s.split(sep): the parts of s between the occurrences of sep
RECURSIVE SplitFrom(_, _, _, _)
SplitFrom(s, sep, i, cur) ==
    IF i > Len(s) THEN <<cur>>
    ELSE IF s[i] = sep THEN <<cur>> \o SplitFrom(s, sep, i + 1, <<>>)
    ELSE SplitFrom(s, sep, i + 1, Append(cur, s[i]))

split(s, sep) == SplitFrom(s, sep, 1, <<>>)

\* Python's a <= b on strings: lexicographic on the character codes
RECURSIVE StrLeqFrom(_, _, _)
StrLeqFrom(a, b, i) ==
    IF i > Len(a) THEN TRUE
    ELSE IF i > Len(b) THEN FALSE
    ELSE IF a[i] < b[i] THEN TRUE
    ELSE IF a[i] > b[i] THEN FALSE
    ELSE StrLeqFrom(a, b, i + 1)

StrLeq(a, b) == StrLeqFrom(a, b, 1)

\* SQL: s LIKE '%' || suffix, for a suffix without wildcards
LikeSuffix(s, suffix) ==
    /\ Len(s) >= Len(suffix)
    /\ SubSeq(s, Len(s) - Len(suffix) + 1, Len(s)) = suffix

\* the date DD/MM/YYYY as the remote source writes it
DateStr(d, m, y) == Pad2(d) \o <<Slash>> \o Pad2(m) \o <<Slash>> \o Pad4(y)

\* Python's None / SQL NULL, told apart from every string
None == <<0>>

\* dict.get(key): None when the key is missing
Get(dict, key) == IF key \in DOMAIN dict THEN dict[key] ELSE None

\* the keys a record of the remote source may hold, in the order it writes them
ContractKeys == <<"idContrato", "dataPublicacao", "objectoContrato">>
AnnouncementKeys == <<"nAnuncio", "dataPublicacao", "TipoAnuncio", "descricaoAnuncio", "CPVs">>
FilterKeys == <<"keyword", "fornecedor_nif", "location", "cpv_codes">>
Keys == ContractKeys \o SubSeq(AnnouncementKeys, 1, 1)
             \o SubSeq(AnnouncementKeys, 3, Len(AnnouncementKeys)) \o FilterKeys

\* json.dumps(dict): the text of the (key, value) pairs; json.loads reads it back
json_dumps(dict) ==
    LET present == SelectSeq(Keys, LAMBDA k : k \in DOMAIN dict)
    IN  [i \in 1..Len(present) |-> <<present[i], dict[present[i]]>>]

json_loads(text) ==
    [k \in {text[i][1] : i \in 1..Len(text)} |->
        LET i == CHOOSE j \in 1..Len(text) : text[j][1] = k IN text[i][2]]

---------------------------------------------------------------------------
(* Time *)

\* datetime.date(): the calendar day of an instant
date(t) == t \div TicksPerDay

\* datetime.isoformat() writes the date and the time of day; fromisoformat reads them
isoformat(t) == <<t \div TicksPerDay, t % TicksPerDay>>
fromisoformat(text) == text[1] * TicksPerDay + text[2]

---------------------------------------------------------------------------
(* The store.  A world w is the three tables and the remote calls made so  *)
(* far by the operation in progress.                                       *)

\* faulty variant: a plain INSERT into a table without its primary key
InsertOrReplace_Insert(table, key, row) == table \cup {row}

\* INSERT OR REPLACE on a table whose primary key is the column key
InsertOrReplace(table, key, row) == {r \in table : r[key] # row[key]} \cup {row}

HasMetadata(metadata, year) == \E r \in metadata : r.year = year
MetadataOf(metadata, year) == CHOOSE r \in metadata : r.year = year

\* faulty variant: a year without a metadata row is taken as fresh
should_refresh_cache_NoRowFresh(metadata, t, year) ==
    IF ~HasMetadata(metadata, year) THEN FALSE
    ELSE date(fromisoformat(MetadataOf(metadata, year).last_fetched)) < date(t)

\* faulty variant: the instants are compared, not their calendar days
should_refresh_cache_Instant(metadata, t, year) ==
    IF ~HasMetadata(metadata, year) THEN TRUE
    ELSE fromisoformat(MetadataOf(metadata, year).last_fetched) < t

\* CachedBaseAPIClient._should_refresh_cache
should_refresh_cache(metadata, t, year) ==
    IF ~HasMetadata(metadata, year) THEN TRUE
    ELSE date(fromisoformat(MetadataOf(metadata, year).last_fetched)) < date(t)

ContractRow(contract, t) ==
    [id_contrato |-> Get(contract, "idContrato"),
     data_publicacao |-> Get(contract, "dataPublicacao"),
     objeto_contrato |-> Get(contract, "objectoContrato"),
     raw_data |-> json_dumps(contract),
     last_updated |-> isoformat(t)]

AnnouncementRow(announcement, t) ==
    [n_anuncio |-> Get(announcement, "nAnuncio"),
     data_publicacao |-> Get(announcement, "dataPublicacao"),
     tipo_anuncio |-> Get(announcement, "TipoAnuncio"),
     raw_data |-> json_dumps(announcement),
     last_updated |-> isoformat(t)]

\* the loop of _store_contracts: one INSERT OR REPLACE per contract, in order
RECURSIVE UpsertContracts(_, _, _, _)
UpsertContracts(table, list, i, t) ==
    IF i > Len(list) THEN table
    ELSE UpsertContracts(InsertOrReplace(table, "id_contrato", ContractRow(list[i], t)),
                         list, i + 1, t)

RECURSIVE UpsertAnnouncements(_, _, _, _)
UpsertAnnouncements(table, list, i, t) ==
    IF i > Len(list) THEN table
    ELSE UpsertAnnouncements(InsertOrReplace(table, "n_anuncio", AnnouncementRow(list[i], t)),
                             list, i + 1, t)

\* faulty variant: the number of contracts is not recorded
MetadataRow_NoCount(year, t, list) ==
    [year |-> year, last_fetched |-> isoformat(t), record_count |-> 0]

MetadataRow(year, t, list) ==
    [year |-> year, last_fetched |-> isoformat(t), record_count |-> Len(list)]

\* faulty variant: the rows are stored and the metadata row is not written
store_contracts_NoMetadata(w, list, year, t) ==
    [w EXCEPT !.contracts = UpsertContracts(w.contracts, list, 1, t)]

\* CachedBaseAPIClient._store_contracts: the rows, then the metadata row, one commit
store_contracts(w, list, year, t) ==
    [w EXCEPT !.contracts = UpsertContracts(w.contracts, list, 1, t),
              !.cache_metadata = InsertOrReplace(w.cache_metadata, "year",
                                                 MetadataRow(year, t, list))]

\* faulty variant: the announcements write the metadata row of the year as well
store_announcements_WithMetadata(w, list, year, t) ==
    [w EXCEPT !.announcements = UpsertAnnouncements(w.announcements, list, 1, t),
              !.cache_metadata = InsertOrReplace(w.cache_metadata, "year",
                                                 MetadataRow(year, t, list))]

\* CachedBaseAPIClient._store_announcements
store_announcements(w, list, year, t) ==
    [w EXCEPT !.announcements = UpsertAnnouncements(w.announcements, list, 1, t)]

---------------------------------------------------------------------------
(* The remote source.  An answer is a failure (the request raises), a list *)
(* of records, one record alone, or nothing (a JSON null).                 *)

Fail == [kind |-> "fail"]
Empty == [kind |-> "empty"]
List(items) == [kind |-> "list", items |-> items]
Object(item) == [kind |-> "object", item |-> item]
NoAnswer == [kind |-> "none"]      \* the remote source is not asked

\* a list of records given by the remote source, and the store raising
\* (sqlite3.Error) while the list is written: at a row, at the metadata row or
\* at the commit.  The connection is dropped without a commit, so that nothing
\* of the list is kept.
StoreError(items) == [kind |-> "list", items |-> items, store |-> "error"]
StoreFails(answer) == "store" \in DOMAIN answer

\* BaseAPIClient.search_contracts_by_year: result if isinstance(result, list) else [result]
search_contracts_by_year(answer) ==
    IF answer.kind = "list" THEN answer.items
    ELSE IF answer.kind = "object" THEN <<answer.item>>
    ELSE <<None>>

\* _store_contracts on [None]: contract.get raises AttributeError at the first
\* row, inside the try of sync_year, and nothing is committed
StoreRaises(what, answer) == what = "contracts" /\ answer.kind = "empty"

\* faulty variant: one record alone is taken for nothing
NormalizeAnnouncements_Drop(answer) ==
    IF answer.kind = "list" THEN answer.items ELSE <<>>

\* sync_year, lines 162-164: a list as it is, one record as [record], nothing as []
NormalizeAnnouncements(answer) ==
    IF answer.kind = "list" THEN answer.items
    ELSE IF answer.kind = "object" THEN <<answer.item>>
    ELSE <<>>

Call(what, year, answer) ==
    [what |-> what, year |-> year, ok |-> answer.kind # "fail",
     stored |-> answer.kind # "fail" /\ ~StoreFails(answer) /\ ~StoreRaises(what, answer),
     answer |-> answer]

\* faulty variant: a failed contracts fetch writes the metadata row, of no contract
SyncContracts_MetadataOnFailure(w, t, year, answer) ==
    LET called == [w EXCEPT !.calls = Append(w.calls, Call("contracts", year, answer))]
    IN  store_contracts(called,
                        IF answer.kind = "fail" THEN <<>> ELSE search_contracts_by_year(answer),
                        year, t)

\* faulty variant: every row is committed as it is written, so that the rows of a
\* list are kept when the store raises after them
SyncContracts_Autocommit(w, t, year, answer) ==
    LET called == [w EXCEPT !.calls = Append(w.calls, Call("contracts", year, answer))]
    IN  IF answer.kind = "fail" \/ StoreRaises("contracts", answer) THEN called
        ELSE IF StoreFails(answer)
             THEN [called EXCEPT !.contracts = UpsertContracts(w.contracts, answer.items, 1, t)]
        ELSE store_contracts(called, search_contracts_by_year(answer), year, t)

\* the first try block of sync_year
SyncContracts(w, t, year, answer) ==
    LET called == [w EXCEPT !.calls = Append(w.calls, Call("contracts", year, answer))]
    IN  IF answer.kind = "fail" THEN called
        ELSE IF StoreFails(answer) \/ StoreRaises("contracts", answer) THEN called
        ELSE store_contracts(called, search_contracts_by_year(answer), year, t)

\* the second try block of sync_year
SyncAnnouncements(w, t, year, answer) ==
    LET called == [w EXCEPT !.calls = Append(w.calls, Call("announcements", year, answer))]
    IN  IF answer.kind = "fail" THEN called
        ELSE IF StoreFails(answer) THEN called
        ELSE store_announcements(called, NormalizeAnnouncements(answer), year, t)

\* faulty variant: force is ignored
SyncGuard_NoForce(metadata, t, year, force) == should_refresh_cache(metadata, t, year)

\* the guard of sync_year: it goes on when forced or when the year is stale
SyncGuard(metadata, t, year, force) == force \/ should_refresh_cache(metadata, t, year)

\* faulty variant: no try/except around the contracts fetch, its failure leaves sync_year
sync_year_NoCatch(w, t, year, force, ansC, ansA) ==
    IF ~SyncGuard(w.cache_metadata, t, year, force) THEN w
    ELSE IF ansC.kind = "fail"
         THEN [SyncContracts(w, t, year, ansC) EXCEPT !.raised = TRUE]
    ELSE SyncAnnouncements(SyncContracts(w, t, year, ansC), t, year, ansA)

\* CachedBaseAPIClient.sync_year: each fetch in its own try/except Exception
sync_year(w, t, year, force, ansC, ansA) ==
    IF ~SyncGuard(w.cache_metadata, t, year, force) THEN w
    ELSE SyncAnnouncements(SyncContracts(w, t, year, ansC), t, year, ansA)

---------------------------------------------------------------------------
(* Queries *)

\* the year of a date: date_str.split("/")[2]
YearOf(date_str) == split(date_str, Slash)[3]

\* get_contracts_by_date, lines 243-245: sync the year of the date when it is stale
LazySync(w, t, year, ansC, ansA) ==
    IF should_refresh_cache(w.cache_metadata, t, year)
    THEN sync_year(w, t, year, FALSE, ansC, ansA)
    ELSE w

\* faulty variant: the record is rebuilt from the normalized columns
SelectByDate_Columns(table, date_str) ==
    {[k \in DOMAIN r \ {"raw_data", "last_updated"} |-> r[k]] :
        r \in {x \in table : x.data_publicacao = date_str}}

\* faulty variant: the dates are compared as days, months and years, not as texts
SelectByDate_Parsed(table, date_str) ==
    {json_loads(r.raw_data) :
        r \in {x \in table : \A i \in 1..3 : int(split(x.data_publicacao, Slash)[i])
                                              = int(split(date_str, Slash)[i])}}

\* SELECT raw_data FROM <table> WHERE data_publicacao = ?, each blob read by json.loads
SelectByDate(table, date_str) ==
    {json_loads(r.raw_data) : r \in {x \in table : x.data_publicacao = date_str}}

\* convert_date of get_contracts_by_date_range: DD/MM/YYYY to YYYY-MM-DD
convert_date(date_str) ==
    LET parts == split(date_str, Slash)
    IN  parts[3] \o <<Dash>> \o parts[2] \o <<Dash>> \o parts[1]

\* faulty variant: the years are gone through from the last to the first
RECURSIVE SyncRange_Down(_, _, _, _, _)
SyncRange_Down(w, t, from, to, answers) ==
    IF from > to THEN w
    ELSE SyncRange_Down(LazySync(w, t, str(to), answers[to][1], answers[to][2]),
                        t, from, to - 1, answers)

\* the loop of lines 305-307, over the years from..to with their remote answers
RECURSIVE SyncRange(_, _, _, _, _)
SyncRange(w, t, from, to, answers) ==
    IF from > to THEN w
    ELSE SyncRange(LazySync(w, t, str(from), answers[from][1], answers[from][2]),
                   t, from + 1, to, answers)

\* the WHERE clause of line 324: data_publicacao LIKE '%/<start_year>'
ScannedRows(table, start_date) ==
    {r \in table : LikeSuffix(r.data_publicacao, <<Slash>> \o YearOf(start_date))}

\* the row filter of lines 328-333
InRange(row, start_date, end_date) ==
    /\ row.data_publicacao # None
    /\ row.data_publicacao # <<>>
    /\ StrLeq(convert_date(start_date), convert_date(row.data_publicacao))
    /\ StrLeq(convert_date(row.data_publicacao), convert_date(end_date))

\* the rows get_contracts_by_date_range returns, each blob read by json.loads
SelectByDateRange(table, start_date, end_date) ==
    {json_loads(r.raw_data) :
        r \in {x \in ScannedRows(table, start_date) : InRange(x, start_date, end_date)}}

---------------------------------------------------------------------------
(* History *)

World == [contracts |-> contracts, announcements |-> announcements,
          cache_metadata |-> cache_metadata, calls |-> <<>>, raised |-> FALSE]

\* a sync in which both fetches of the year succeeded
BothFetched(calls, year) ==
    /\ Len(calls) = 2
    /\ calls[1].year = year /\ calls[1].ok
    /\ calls[2].year = year /\ calls[2].ok

\* two syncs that were given the same data by the remote source
SameData(calls, other) ==
    /\ calls[1].answer = other[1].answer
    /\ calls[2].answer = other[2].answer

Op(op, year, force, start, end, w, result) ==
    [op |-> op, year |-> year, force |-> force, start |-> start, end |-> end,
     calls |-> w.calls, raised |-> w.raised, result |-> IF w.raised THEN {} ELSE result,
     repeat |-> /\ op = "sync_year" /\ lastOp.op = "sync_year"
                /\ BothFetched(w.calls, year) /\ BothFetched(lastOp.calls, year)
                /\ SameData(w.calls, lastOp.calls),
     turn |-> 1 - lastOp.turn]

NoDay == 0 - 1

Asked(calls, year) == \E i \in 1..Len(calls) : calls[i].year = year
Fetched(calls, what, year) ==
    \E i \in 1..Len(calls) : calls[i].year = year /\ calls[i].what = what /\ calls[i].ok
Kept(calls, what, year) ==
    \E i \in 1..Len(calls) : calls[i].year = year /\ calls[i].what = what /\ calls[i].stored

\* per year: asked, once a non-forced access of the day asked the remote source;
\* ok, once a contracts fetch of the day succeeded
NextDayLog(calls, force) ==
    [y \in DOMAIN dayLog |->
        [asked |-> dayLog[y].asked \/ (~force /\ Asked(calls, y)),
         ok |-> dayLog[y].ok \/ Kept(calls, "contracts", y)]]

NewDay == [asked |-> FALSE, ok |-> FALSE]

\* per year: the day of the last sync in which both fetches succeeded; forgotten
\* when a later sync of the year asks the remote source and a fetch fails
NextSyncedOn(calls, t) ==
    [y \in DOMAIN syncedOn |->
        IF ~Asked(calls, y) THEN syncedOn[y]
        ELSE IF Kept(calls, "contracts", y) /\ Kept(calls, "announcements", y)
             THEN date(t)
        ELSE NoDay]

\* the records of a list replace, id by id, the records given before
RECURSIVE Ingest(_, _, _, _)
Ingest(records, list, key, i) ==
    IF i > Len(list) THEN records
    ELSE Ingest({r \in records : Get(r, key) # Get(list[i], key)} \cup {list[i]}, list, key, i + 1)

RECURSIVE NextIngested(_, _, _)
NextIngested(ing, calls, i) ==
    IF i > Len(calls) THEN ing
    ELSE IF ~calls[i].stored THEN NextIngested(ing, calls, i + 1)
    ELSE IF calls[i].what = "contracts"
         THEN NextIngested([ing EXCEPT !.contracts =
                                Ingest(@, search_contracts_by_year(calls[i].answer), "idContrato", 1)],
                           calls, i + 1)
    ELSE NextIngested([ing EXCEPT !.announcements =
                           Ingest(@, NormalizeAnnouncements(calls[i].answer), "nAnuncio", 1)],
                      calls, i + 1)

Commit(w, force) ==
    /\ contracts' = w.contracts
    /\ announcements' = w.announcements
    /\ cache_metadata' = w.cache_metadata
    /\ dayLog' = NextDayLog(w.calls, force)
    /\ syncedOn' = NextSyncedOn(w.calls, now)
    /\ ingested' = NextIngested(ingested, w.calls, 1)
    /\ now' = now
    /\ UNCHANGED <<lastFilter, sync, autoVars>>

---------------------------------------------------------------------------
(* Operations.  Each takes the sets its inputs are drawn from: years or    *)
(* dates, and per year the answers the remote source may give.             *)

\* the answers to draw when the year is going to be fetched, none otherwise
Drawn(answers, year, force) ==
    IF SyncGuard(cache_metadata, now, year, force) THEN answers[year] ELSE {NoAnswer}

\* sync_year_data.py, sync_cache.py: client.sync_year(year, force)
SyncYearOp(years, AC, AA) ==
    \E year \in years, force \in BOOLEAN :
        \E ansC \in Drawn(AC, year, force), ansA \in Drawn(AA, year, force) :
            \E w \in {sync_year(World, now, year, force, ansC, ansA)} :
                /\ Commit(w, force)
                /\ lastOp' = Op("sync_year", year, force, None, None,
                                w, {})

\* client.get_contracts_by_date(date_str)
GetContractsByDate(dates, AC, AA) ==
    \E date_str \in dates :
        \E ansC \in Drawn(AC, YearOf(date_str), FALSE), ansA \in Drawn(AA, YearOf(date_str), FALSE) :
            \E w \in {LazySync(World, now, YearOf(date_str), ansC, ansA)} :
                /\ Commit(w, FALSE)
                /\ lastOp' = Op("get_contracts_by_date", YearOf(date_str), FALSE, date_str, date_str,
                                w, SelectByDate(w.contracts, date_str))

\* client.get_announcements_by_date(date_str)
GetAnnouncementsByDate(dates, AC, AA) ==
    \E date_str \in dates :
        \E ansC \in Drawn(AC, YearOf(date_str), FALSE), ansA \in Drawn(AA, YearOf(date_str), FALSE) :
            \E w \in {LazySync(World, now, YearOf(date_str), ansC, ansA)} :
                /\ Commit(w, FALSE)
                /\ lastOp' = Op("get_announcements_by_date", YearOf(date_str), FALSE, date_str, date_str,
                                w, SelectByDate(w.announcements, date_str))

\* the remote answers of a range query: a pair (contracts, announcements) per year
AnswerPairs(y, AC, AA) ==
    {<<c, a>> : c \in Drawn(AC, str(y), FALSE), a \in Drawn(AA, str(y), FALSE)}

RangeAnswers(from, to, AC, AA) ==
    {f \in [from..to -> UNION {AnswerPairs(y, AC, AA) : y \in from..to}] :
        \A y \in from..to : f[y] \in AnswerPairs(y, AC, AA)}

\* client.get_contracts_by_date_range(start_date, end_date)
GetContractsByDateRange(ranges, AC, AA) ==
    \E range \in ranges :
        LET start_date == range[1]
            end_date == range[2]
            from == int(YearOf(start_date))
            to == int(YearOf(end_date))
        IN  \E answers \in RangeAnswers(from, to, AC, AA) :
                \E w \in {SyncRange(World, now, from, to, answers)} :
                    /\ Commit(w, FALSE)
                    /\ lastOp' = Op("get_contracts_by_date_range", YearOf(start_date), FALSE,
                                    start_date, end_date,
                                    w, SelectByDateRange(w.contracts, start_date, end_date))

\* the clock moves on by one tick, up to the instant last; at midnight the day's
\* history starts afresh
Tick(last) ==
    /\ now + 1 <= last
    /\ now' = now + 1
    /\ dayLog' = IF date(now + 1) = date(now) THEN dayLog ELSE [y \in DOMAIN dayLog |-> NewDay]
    /\ UNCHANGED <<contracts, announcements, cache_metadata, lastOp, syncedOn, ingested, lastFilter,
                   sync>>
    /\ UNCHANGED autoVars

---------------------------------------------------------------------------
(* Python values.  A list is told apart from a string by its first element. *)

Comma == 44          \* ','
Space == 32          \* ' '

ListTag == 0 - 1
PyList(items) == <<ListTag>> \o items
IsList(v) == Len(v) > 0 /\ v[1] = ListTag
Items(v) == Tail(v)

\* the truth value of a string, a list or None
Truthy(v) == v # None /\ v # <<>> /\ v # PyList(<<>>)

\* dict.get(key, default)
GetOr(dict, key, default) == IF key \in DOMAIN dict THEN dict[key] ELSE default

\* str.lower() on the letters A-Z
lower(s) == [i \in 1..Len(s) |-> IF s[i] >= 65 /\ s[i] <= 90 THEN s[i] + 32 ELSE s[i]]

IsSpace(c) == c \in {9, 10, 11, 12, 13, 32}

RECURSIVE lstrip(_)
lstrip(s) == IF Len(s) > 0 /\ IsSpace(s[1]) THEN lstrip(Tail(s)) ELSE s

RECURSIVE rstrip(_)
rstrip(s) == IF Len(s) > 0 /\ IsSpace(s[Len(s)]) THEN rstrip(SubSeq(s, 1, Len(s) - 1)) ELSE s

\* str.strip()
strip(s) == rstrip(lstrip(s))

\* sub in s
Contains(sub, s) == \E i \in 1..(Len(s) - Len(sub) + 1) : SubSeq(s, i, i + Len(sub) - 1) = sub

\* sep.join(list)
RECURSIVE join(_, _)
join(list, sep) ==
    IF Len(list) = 0 THEN <<>>
    ELSE IF Len(list) = 1 THEN list[1]
    ELSE list[1] \o sep \o join(Tail(list), sep)

---------------------------------------------------------------------------
(* filter_utils.filter_contracts *)

\* ' '.join(str(x) for x in (c.get(key, []) if isinstance(c.get(key), list) else []))
Joined(c, key) ==
    IF IsList(Get(c, key)) THEN join(Items(Get(c, key)), <<Space>>) ELSE <<>>

\* what a for loop over a value visits: the items of a list, the characters of a string
Iterate(v) == IF IsList(v) THEN Items(v) ELSE [i \in 1..Len(v) |-> <<v[i]>>]

\* the keywords of a comma-separated text: stripped, lowered, the empty ones left out
Keywords(text) ==
    LET kept == SelectSeq(split(text, Comma), LAMBDA kw : strip(kw) # <<>>)
    IN  [i \in 1..Len(kept) |-> lower(strip(kept[i]))]

KeywordMatches(c, keyword) ==
    \/ Contains(keyword, lower(GetOr(c, "objectoContrato", <<>>)))
    \/ Contains(keyword, lower(GetOr(c, "descContrato", <<>>)))
    \/ Contains(keyword, lower(Joined(c, "cpv")))
    \/ Contains(keyword, lower(GetOr(c, "descricaoAnuncio", <<>>)))
    \/ Contains(keyword, lower(Joined(c, "CPVs")))

\* lines 36-50
KeywordFilter(list, filters) ==
    IF ~Truthy(Get(filters, "keyword")) THEN list
    ELSE LET keywords == Keywords(filters.keyword)
         IN  SelectSeq(list, LAMBDA c : \E i \in 1..Len(keywords) : KeywordMatches(c, keywords[i]))

\* lines 53-58
NifFilter(list, filters) ==
    IF ~Truthy(Get(filters, "fornecedor_nif")) THEN list
    ELSE SelectSeq(list, LAMBDA c : Contains(strip(filters.fornecedor_nif), Joined(c, "adjudicatarios")))

LocationMatches(c, location_list) ==
    \/ ~Truthy(Get(c, "localExecucao"))
    \/ /\ IsList(c.localExecucao)
       /\ \E i \in 1..Len(Items(c.localExecucao)), j \in 1..Len(location_list) :
              Contains(lower(location_list[j]), lower(Items(c.localExecucao)[i]))

\* faulty variant: the records kept are returned from the last to the first
LocationFilter_Reversed(list, filters) ==
    IF ~Truthy(Get(filters, "location")) THEN list
    ELSE LET location_list == IF IsList(filters.location) THEN Items(filters.location)
                              ELSE <<filters.location>>
             kept == SelectSeq(list, LAMBDA c : LocationMatches(c, location_list))
         IN  [i \in 1..Len(kept) |-> kept[Len(kept) + 1 - i]]

\* lines 61-72
LocationFilter(list, filters) ==
    IF ~Truthy(Get(filters, "location")) THEN list
    ELSE LET location_list == IF IsList(filters.location) THEN Items(filters.location)
                              ELSE <<filters.location>>
         IN  SelectSeq(list, LAMBDA c : LocationMatches(c, location_list))

CpvMatches(c, key, cpv_list) ==
    /\ Truthy(Get(c, key))
    /\ \E i \in 1..Len(Iterate(c[key])), j \in 1..Len(cpv_list) :
           Contains(split(cpv_list[j], Dash)[1], Iterate(c[key])[i])

\* faulty variant: an empty or missing list of codes is filtered by, and matches nothing
CpvFilter_NoGuard(list, filters) ==
    LET cpv_list == IF Truthy(Get(filters, "cpv_codes")) THEN Iterate(filters.cpv_codes) ELSE <<>>
    IN  SelectSeq(list, LAMBDA c : CpvMatches(c, "cpv", cpv_list) \/ CpvMatches(c, "CPVs", cpv_list))

\* lines 75-92
CpvFilter(list, filters) ==
    IF ~Truthy(Get(filters, "cpv_codes")) THEN list
    ELSE LET cpv_list == Iterate(filters.cpv_codes)
         IN  SelectSeq(list, LAMBDA c : CpvMatches(c, "cpv", cpv_list) \/ CpvMatches(c, "CPVs", cpv_list))

filter_contracts(list, filters) ==
    CpvFilter(LocationFilter(NifFilter(KeywordFilter(list, filters), filters), filters), filters)

\* app.filter_contracts: the same blocks, but "if filters['keyword']:" and
\* "if filters['fornecedor_nif']:" read the dict by subscript, and a subscript
\* with a missing key raises KeyError.  The outcome of a call is what it raised
\* (nothing, or the error) and what it returned.
app_filter_contracts(list, filters) ==
    IF "keyword" \notin DOMAIN filters \/ "fornecedor_nif" \notin DOMAIN filters
    THEN [raised |-> {"KeyError"}, result |-> <<>>]
    ELSE [raised |-> {}, result |-> filter_contracts(list, filters)]

---------------------------------------------------------------------------
(* Saved searches.  The names of saved searches are only compared with one *)
(* another and are written as they are.                                    *)

HasSearch(table, name) == \E r \in table : r.name = name

\* CURRENT_TIMESTAMP of SQLite: the date and the time of the instant
CURRENT_TIMESTAMP(t) == <<t \div TicksPerDay, t % TicksPerDay>>

\* faulty variant: the row of the name is replaced (INSERT OR REPLACE)
save_search_Replace(table, name, filters, t) ==
    [table |-> {r \in table : r.name # name}
                  \cup {[name |-> name, filters |-> json_dumps(filters),
                         created_at |-> CURRENT_TIMESTAMP(t), last_used |-> None]},
     result |-> TRUE]

\* faulty variant: last_used is set in every row (UPDATE without WHERE)
load_search_TouchAll(table, name, t) ==
    IF ~HasSearch(table, name) THEN [table |-> table, found |-> FALSE, filters |-> <<>>]
    ELSE LET row == CHOOSE r \in table : r.name = name
         IN  [table |-> {[r EXCEPT !.last_used = CURRENT_TIMESTAMP(t)] : r \in table},
              found |-> TRUE, filters |-> json_loads(row.filters)]

\* faulty variant: every row is deleted (DELETE without WHERE)
delete_search_All(table, name) ==
    [table |-> {}, result |-> HasSearch(table, name)]

\* CachedBaseAPIClient.save_search: INSERT; False when the name exists
save_search(table, name, filters, t) ==
    IF HasSearch(table, name) THEN [table |-> table, result |-> FALSE]
    ELSE [table |-> table \cup {[name |-> name, filters |-> json_dumps(filters),
                                 created_at |-> CURRENT_TIMESTAMP(t), last_used |-> None]},
          result |-> TRUE]

\* CachedBaseAPIClient.load_search: the filters saved under the name, last_used set
load_search(table, name, t) ==
    IF ~HasSearch(table, name) THEN [table |-> table, found |-> FALSE, filters |-> <<>>]
    ELSE LET row == CHOOSE r \in table : r.name = name
         IN  [table |-> (table \ {row}) \cup {[row EXCEPT !.last_used = CURRENT_TIMESTAMP(t)]},
              found |-> TRUE, filters |-> json_loads(row.filters)]

\* CachedBaseAPIClient.delete_search: DELETE of the rows of the name; whether one was
delete_search(table, name) ==
    [table |-> {r \in table : r.name # name}, result |-> HasSearch(table, name)]

\* faulty variant: whatever was loaded is taken for filters
NoFilters_Never(loaded) == FALSE

\* "if not filters": nothing was loaded, or an empty dict was
NoFilters(loaded) == ~loaded.found \/ DOMAIN loaded.filters = {}

---------------------------------------------------------------------------
(* The ledger and the run log *)

\* is_announcement_processed: an entry exists for the announcement number
is_announcement_processed(ledger, n_anuncio) == \E r \in ledger : r.n_anuncio = n_anuncio

\* mark_announcement_processed: the entry of the announcement number, upserted
mark_announcement_processed(ledger, n_anuncio, hubspot_deal_id, saved_search_name, t) ==
    InsertOrReplace(ledger, "n_anuncio",
                    [n_anuncio |-> n_anuncio, hubspot_deal_id |-> hubspot_deal_id,
                     saved_search_name |-> saved_search_name, processed_at |-> isoformat(t)])

\* log_daily_sync: one more row in the run log
log_daily_sync(log, sync_date, fetched, new, created, failed, sync_status, error) ==
    Append(log, [sync_date |-> sync_date, announcements_fetched |-> fetched,
                 announcements_new |-> new, deals_created |-> created,
                 deals_failed |-> failed, sync_status |-> sync_status, error |-> error])

---------------------------------------------------------------------------
(* The daily automation: main() of daily_automation.py, step by step at    *)
(* its calls to the CRM; the process may be killed between two steps.      *)

DefaultAutomation == "Default Automation"

\* strftime('%d/%m/%Y') of a calendar day; day 0 is 01/01/2025
strftime(day) == IF day >= 0 THEN DateStr(day + 1, 1, 2025) ELSE DateStr(32 + day, 12, 2024)

\* strftime('%Y-%m-%d')
strftime_ymd(day) == convert_date(strftime(day))

\* convert_date of main(): None for an empty date and for one without three parts
automation_convert_date(date_str) ==
    IF ~Truthy(date_str) THEN None
    ELSE IF Len(split(date_str, Slash)) # 3 THEN None
    ELSE convert_date(date_str)

\* lines 107-108: a list as it is, one record as [record], nothing as []
NormalizeFetched(answer) ==
    IF answer.kind = "list" THEN answer.items
    ELSE IF answer.kind = "object" THEN <<answer.item>>
    ELSE <<>>

\* the loop of lines 104-111 over the years from..to
RECURSIVE FetchYears(_, _, _)
FetchYears(from, to, answers) ==
    IF from > to THEN <<>>
    ELSE NormalizeFetched(answers[from]) \o FetchYears(from + 1, to, answers)

\* faulty variant: the row of an announcement is written whether it is there or not
RECURSIVE SelectNew_Replace(_, _, _, _, _, _, _)
SelectNew_Replace(st, fetched, i, start, end, ledger, t) ==
    IF i > Len(fetched) THEN st
    ELSE LET a == fetched[i]
             pub_date == GetOr(a, "dataPublicacao", <<>>)
             pub_comparable == automation_convert_date(pub_date)
             n_anuncio == Get(a, "nAnuncio")
             take == /\ Truthy(pub_date)
                     /\ Truthy(pub_comparable)
                     /\ StrLeq(start, pub_comparable) /\ StrLeq(pub_comparable, end)
                     /\ Truthy(n_anuncio)
                     /\ ~is_announcement_processed(ledger, n_anuncio)
             stored == InsertOrReplace(st.announcements, "n_anuncio", AnnouncementRow(a, t))
         IN  SelectNew_Replace(IF take THEN [announcements |-> stored, new |-> Append(st.new, a)]
                               ELSE st,
                               fetched, i + 1, start, end, ledger, t)

\* the loop of lines 129-178: the announcements of the range that are not in the
\* ledger, each inserted in the table announcements when it has no row there
RECURSIVE SelectNew(_, _, _, _, _, _, _)
SelectNew(st, fetched, i, start, end, ledger, t) ==
    IF i > Len(fetched) THEN st
    ELSE LET a == fetched[i]
             pub_date == GetOr(a, "dataPublicacao", <<>>)
             pub_comparable == automation_convert_date(pub_date)
             n_anuncio == Get(a, "nAnuncio")
             take == /\ Truthy(pub_date)
                     /\ Truthy(pub_comparable)
                     /\ StrLeq(start, pub_comparable) /\ StrLeq(pub_comparable, end)
                     /\ Truthy(n_anuncio)
                     /\ ~is_announcement_processed(ledger, n_anuncio)
             stored == IF \E r \in st.announcements : r.n_anuncio = n_anuncio
                       THEN st.announcements
                       ELSE InsertOrReplace(st.announcements, "n_anuncio", AnnouncementRow(a, t))
         IN  SelectNew(IF take THEN [announcements |-> stored, new |-> Append(st.new, a)] ELSE st,
                       fetched, i + 1, start, end, ledger, t)

\* the process when it is not running, with the way its last run ended
IdleRun(exit) ==
    [pc |-> "idle", name |-> "", sync_date |-> <<>>, queue |-> <<>>, i |-> 0, token |-> FALSE,
     result |-> None, fetched |-> 0, new |-> 0, created |-> 0, failed |-> 0, exit |-> exit,
     asked |-> 0]   \* asked: history, the requests the last run made to the remote source

\* user: save a search (app.py, create_test_search.py)
\* the filters saved under each name, after a call of save_search
Saved(book, name, filters, result) ==
    IF result THEN [book EXCEPT ![name] = {filters}] ELSE book

\* app.py, "Save Search": save_search with the current filters
SaveSearchOp(names, filterSets) ==
    /\ run.pc = "idle"
    /\ \E name \in names, filters \in filterSets :
         \E saved \in {save_search(saved_searches, name, filters, now)} :
           /\ saved_searches' = saved.table
           /\ lastSearch' = [op |-> "save", name |-> name, filters |-> {filters},
                             result |-> saved.result, loaded |-> {},
                             book |-> Saved(lastSearch.book, name, filters, saved.result)]
    /\ UNCHANGED <<cacheVars, processed_announcements, daily_sync_log, deals, run, runs, crmCalls>>

\* app.py, "Load": load_search of the selected name
LoadSearchOp(names) ==
    /\ run.pc = "idle"
    /\ \E name \in names :
         \E loaded \in {load_search(saved_searches, name, now)} :
           /\ saved_searches' = loaded.table
           /\ lastSearch' = [op |-> "load", name |-> name, filters |-> {},
                             result |-> loaded.found,
                             loaded |-> IF loaded.found THEN {loaded.filters} ELSE {},
                             book |-> lastSearch.book]
    /\ UNCHANGED <<cacheVars, processed_announcements, daily_sync_log, deals, run, runs, crmCalls>>

\* app.py, "Delete": delete_search of the selected name
DeleteSearchOp(names) ==
    /\ run.pc = "idle"
    /\ \E name \in names :
         \E deleted \in {delete_search(saved_searches, name)} :
           /\ saved_searches' = deleted.table
           /\ lastSearch' = [op |-> "delete", name |-> name, filters |-> {},
                             result |-> deleted.result, loaded |-> {},
                             book |-> IF deleted.result
                                      THEN [lastSearch.book EXCEPT ![name] = {}]
                                      ELSE lastSearch.book]
    /\ UNCHANGED <<cacheVars, processed_announcements, daily_sync_log, deals, run, runs, crmCalls>>

\* main(), lines 23-199: the dates, the filters, the fetch, the new announcements,
\* the filter, the token
StartRun(names, days, AA, tokens) ==
    /\ run.pc = "idle"
    /\ runs < MaxRuns
    /\ runs' = runs + 1
    /\ \E name \in names, days_to_check \in days, token \in tokens :
        LET end_day == date(now) - 1
            start_day == end_day - (days_to_check - 1)
            start_date_str == strftime(start_day)
            end_date_str == strftime(end_day)
            sync_date == strftime_ymd(date(now))
            first == load_search(saved_searches, name, now)
            fallback == load_search(first.table, DefaultAutomation, now)
        IN  IF NoFilters(first) /\ NoFilters(fallback)
            THEN \* lines 66-86: the failure is logged, exit status 1
                 /\ saved_searches' = fallback.table
                 /\ daily_sync_log' = log_daily_sync(daily_sync_log, sync_date, 0, 0, 0, 0, "error", TRUE)
                 /\ run' = [IdleRun("error") EXCEPT !.name = name]
                 /\ UNCHANGED <<cacheVars, processed_announcements, deals, crmCalls, lastSearch>>
            ELSE LET filters == IF NoFilters(first) THEN fallback.filters ELSE first.filters
                     from == int(YearOf(start_date_str))
                     to == int(YearOf(end_date_str))
                 IN  \E answers \in [from..to -> AA] :
                       LET fetched == FetchYears(from, to, answers)
                           selected == SelectNew([announcements |-> announcements, new |-> <<>>],
                                                 fetched, 1,
                                                 automation_convert_date(start_date_str),
                                                 automation_convert_date(end_date_str),
                                                 processed_announcements, now)
                           filtered == filter_contracts(selected.new, filters)
                           saved == save_search(fallback.table, name, filters, now)
                       IN  /\ saved_searches' = IF NoFilters(first) THEN saved.table
                                                ELSE first.table
                           /\ lastSearch' =
                                  IF NoFilters(first)
                                  THEN [lastSearch EXCEPT
                                           !.book = Saved(@, name, filters, saved.result)]
                                  ELSE lastSearch
                           /\ announcements' = selected.announcements
                           /\ run' = [pc |-> "loop", name |-> name, sync_date |-> sync_date,
                                      queue |-> filtered, i |-> 1,
                                      token |-> Len(filtered) > 0 /\ token,
                                      result |-> None, fetched |-> Len(fetched),
                                      new |-> Len(selected.new), created |-> 0, failed |-> 0,
                                      exit |-> "running", asked |-> to - from + 1]
                           /\ UNCHANGED <<now, contracts, cache_metadata, lastOp, dayLog, syncedOn,
                                          ingested, lastFilter, sync, processed_announcements,
                                          daily_sync_log, deals, crmCalls>>

\* the announcement the loop of lines 202-244 is at
Current == run.queue[run.i]

\* 'unknown', the number of an announcement without one
Unknown == <<117, 110, 107, 110, 111, 119, 110>>

\* faulty variant: no announcement is taken for processed
AlreadyProcessed_Never(n_anuncio) == FALSE

\* line 207: the ledger has the announcement
AlreadyProcessed(n_anuncio) == is_announcement_processed(processed_announcements, n_anuncio)

\* faulty variant: the loop is entered without a token
InLoop_NoToken == run.pc = "loop" /\ run.i <= Len(run.queue)

\* the loop has an announcement to go on with
InLoop == run.pc = "loop" /\ run.token /\ run.i <= Len(run.queue)

CrmCall(call, n_anuncio, ok) == [call |-> call, n_anuncio |-> n_anuncio, run |-> runs, ok |-> ok]

\* faulty variant: no deal is ever found
check_deal_exists_None(n_anuncio, ok) == {None}

\* faulty variant: a search request that fails is taken for a deal found
check_deal_exists_FailFound(n_anuncio, ok) ==
    IF ~ok THEN {str(0)}
    ELSE IF \E d \in deals : d.numero_de_anuncio = n_anuncio
         THEN {d.id : d \in {x \in deals : x.numero_de_anuncio = n_anuncio}}
    ELSE {None}

\* check_deal_exists: the id of a deal with this announcement number, None when
\* there is none and when the search request fails
check_deal_exists(n_anuncio, ok) ==
    IF ok /\ \E d \in deals : d.numero_de_anuncio = n_anuncio
    THEN {d.id : d \in {x \in deals : x.numero_de_anuncio = n_anuncio}}
    ELSE {None}

\* lines 203-220: skip a processed announcement; else look its deal up, and mark
\* the announcement with the deal found
Lookup(outcomes) ==
    /\ InLoop
    /\ LET n_anuncio == GetOr(Current, "nAnuncio", Unknown)
       IN  IF AlreadyProcessed(n_anuncio)
           THEN /\ run' = [run EXCEPT !.i = @ + 1]
                /\ UNCHANGED <<processed_announcements, crmCalls>>
           ELSE \E ok \in outcomes : \E existing_deal_id \in check_deal_exists(n_anuncio, ok) :
                  /\ crmCalls' = Append(crmCalls, CrmCall("search", n_anuncio, ok))
                  /\ IF Truthy(existing_deal_id)
                     THEN /\ processed_announcements' =
                                 mark_announcement_processed(processed_announcements, n_anuncio,
                                                             existing_deal_id, run.name, now)
                          /\ run' = [run EXCEPT !.i = @ + 1]
                     ELSE /\ run' = [run EXCEPT !.pc = "create"]
                          /\ UNCHANGED processed_announcements
    /\ UNCHANGED <<cacheVars, saved_searches, daily_sync_log, deals, runs, lastSearch>>

\* the id the CRM gives its next deal
NextDealId == str(Cardinality(deals) + 1)

\* convert_announcement_to_deal_properties, before the try of
\* create_deal_from_announcement: description[:100] raises TypeError when
\* descricaoAnuncio is null
ConvertRaises(announcement) ==
    "descricaoAnuncio" \in DOMAIN announcement /\ announcement.descricaoAnuncio = None

\* line 223, create_deal_from_announcement: the deal, or None when the request
\* fails; an exception of the conversion ends the run in the handler of lines 274-294
Create(outcomes) ==
    /\ run.pc = "create"
    /\ LET n_anuncio == GetOr(Current, "nAnuncio", Unknown)
       IN  IF ConvertRaises(Current)
           THEN /\ daily_sync_log' = log_daily_sync(daily_sync_log, run.sync_date, 0, 0, 0, 0,
                                                    "error", TRUE)
                /\ run' = [IdleRun("error") EXCEPT !.asked = run.asked]
                /\ UNCHANGED <<deals, crmCalls>>
           ELSE \E ok \in outcomes :
                  /\ crmCalls' = Append(crmCalls, CrmCall("create", n_anuncio, ok))
                  /\ deals' = IF ok
                              THEN deals \cup {[id |-> NextDealId, numero_de_anuncio |-> n_anuncio]}
                              ELSE deals
                  /\ run' = [run EXCEPT !.pc = "mark",
                                        !.result = IF ok THEN NextDealId ELSE None]
                  /\ UNCHANGED daily_sync_log
    /\ UNCHANGED <<cacheVars, saved_searches, processed_announcements, runs, lastSearch>>

\* lines 225-244: the announcement is marked, with the deal id or without
Mark ==
    /\ run.pc = "mark"
    /\ LET n_anuncio == GetOr(Current, "nAnuncio", Unknown)
       IN  /\ processed_announcements' =
                  mark_announcement_processed(processed_announcements, n_anuncio,
                                              run.result, run.name, now)
           /\ run' = [run EXCEPT !.pc = "loop", !.i = @ + 1, !.result = None,
                                 !.created = IF Truthy(run.result) THEN @ + 1 ELSE @,
                                 !.failed = IF Truthy(run.result) THEN @ ELSE @ + 1]
    /\ UNCHANGED <<cacheVars, saved_searches, daily_sync_log, deals, runs, crmCalls, lastSearch>>

\* lines 246-272: the run is logged and ends
FinishRun ==
    /\ run.pc = "loop" /\ ~InLoop
    /\ daily_sync_log' = log_daily_sync(daily_sync_log, run.sync_date, run.fetched, run.new,
                                        run.created, run.failed,
                                        IF run.failed = 0 THEN "success" ELSE "partial", FALSE)
    /\ run' = [IdleRun("success") EXCEPT !.asked = run.asked]
    /\ UNCHANGED <<cacheVars, saved_searches, processed_announcements, deals, runs, crmCalls,
                   lastSearch>>

\* the process is killed in its loop: nothing more is written
Crash ==
    /\ run.pc \in {"loop", "create", "mark"}
    /\ run' = [IdleRun("killed") EXCEPT !.asked = run.asked]
    /\ UNCHANGED <<cacheVars, saved_searches, processed_announcements, daily_sync_log, deals,
                   runs, crmCalls, lastSearch>>

---------------------------------------------------------------------------
(* Inputs *)

\* the processes that share the database
Procs == {1, 2}

\* the names saved searches are given
SearchNames == {DefaultAutomation, "Tenders"}

Year(y) == Pad4(y)
Years == {Year(2024), Year(2025)}

Contract(id, date_str, text) ==
    [idContrato |-> id, dataPublicacao |-> date_str, objectoContrato |-> text]

Announcement(n, date_str, text) ==
    [nAnuncio |-> n, dataPublicacao |-> date_str, TipoAnuncio |-> text]

\* the lists of at most n records of S
Lists(S, n) == UNION {[1..k -> S] : k \in 0..n}

\* the answers of the remote source over the records S: a failure or a list
AnswersOver(S, n) == {Fail} \cup {List(l) : l \in Lists(S, n)}

---------------------------------------------------------------------------
(* The state after construction: _init_database on an empty file *)

Init ==
    /\ now = 0
    /\ contracts = {}
    /\ announcements = {}
    /\ cache_metadata = {}
    /\ lastOp = [op |-> "init", year |-> None, force |-> FALSE, start |-> None, end |-> None,
                 calls |-> <<>>, raised |-> FALSE, result |-> {}, repeat |-> FALSE, turn |-> 0]
    /\ dayLog = [y \in Years |-> NewDay]
    /\ syncedOn = [y \in Years |-> NoDay]
    /\ ingested = [contracts |-> {}, announcements |-> {}]
    /\ lastFilter = [list |-> <<>>, filters |-> <<>>, result |-> <<>>]
    /\ sync = [pc |-> [p \in Procs |-> "idle"], year |-> [p \in Procs |-> None],
               contracts |-> [p \in Procs |-> Fail], announcements |-> [p \in Procs |-> Fail],
               lock |-> 0, commits |-> <<>>]
    /\ saved_searches = {}
    /\ processed_announcements = {}
    /\ daily_sync_log = <<>>
    /\ deals = {}
    /\ run = IdleRun("none")
    /\ runs = 0
    /\ crmCalls = <<>>
    /\ lastSearch = [op |-> "init", name |-> DefaultAutomation, filters |-> {}, result |-> FALSE,
                     loaded |-> {}, book |-> [name \in SearchNames |-> {}]]

---------------------------------------------------------------------------
(* Freshness: the clock runs tick by tick over one year of the store; the  *)
(* remote source fails or answers with an empty list.                      *)

FreshYears == {Year(2024)}
FreshDates == {DateStr(25, 1, 2024), DateStr(3, 2, 2024)}
FreshRanges == FreshDates \X FreshDates
FreshAnswers == [y \in Years |-> {Fail, List(<<>>)}]

NextFresh ==
    \/ SyncYearOp(FreshYears, FreshAnswers, FreshAnswers)
    \/ GetContractsByDate(FreshDates, FreshAnswers, FreshAnswers)
    \/ GetAnnouncementsByDate(FreshDates, FreshAnswers, FreshAnswers)
    \/ GetContractsByDateRange(FreshRanges, FreshAnswers, FreshAnswers)
    \/ Tick((MaxDay + 1) * TicksPerDay - 1)

SpecFresh == Init /\ [][NextFresh]_vars

---------------------------------------------------------------------------
(* Storage: two instants of one day, one year of the store; the remote     *)
(* source knows two contracts, each in two versions, and one announcement. *)

StoreYears == {Year(2024)}
StoreDates == {DateStr(25, 1, 2024)}
StoreContractRecords == {Contract(str(i), d, str(v)) : i \in 1..2, d \in StoreDates, v \in 7..8}
StoreAnnouncementRecords == {Announcement(str(1), d, str(7)) : d \in StoreDates}
StoreContracts == [y \in Years |-> AnswersOver(StoreContractRecords, MaxRecs)]
StoreAnnouncements == [y \in Years |-> AnswersOver(StoreAnnouncementRecords, 1)]

NextStore ==
    \/ SyncYearOp(StoreYears, StoreContracts, StoreAnnouncements)
    \/ GetContractsByDate(StoreDates, StoreContracts, StoreAnnouncements)
    \/ GetAnnouncementsByDate(StoreDates, StoreContracts, StoreAnnouncements)
    \/ Tick(1)

SpecStore == Init /\ [][NextStore]_vars

---------------------------------------------------------------------------
(* Ranges: one instant, two years of the store; the remote source knows    *)
(* four contracts, each published on its date; six ranges are queried.     *)

RangeQueries == {<<DateStr(20, 1, 2024), DateStr(10, 2, 2024)>>,
                 <<DateStr(26, 1, 2024), DateStr(2, 2, 2024)>>,
                 <<DateStr(25, 1, 2024), DateStr(3, 2, 2024)>>,
                 <<DateStr(10, 2, 2024), DateStr(20, 1, 2024)>>,
                 <<DateStr(28, 12, 2024), DateStr(2, 1, 2025)>>,
                 <<DateStr(20, 1, 2024), DateStr(2, 1, 2025)>>}
RangeRecords == {Contract(str(1), DateStr(25, 1, 2024), str(7)),
                 Contract(str(2), DateStr(3, 2, 2024), str(7)),
                 Contract(str(3), DateStr(28, 12, 2024), str(7)),
                 Contract(str(4), DateStr(2, 1, 2025), str(7))}
RangeContracts ==
    [y \in Years |-> AnswersOver({c \in RangeRecords : YearOf(c.dataPublicacao) = y}, 1)]
RangeAnnouncements == [y \in Years |-> {List(<<>>)}]

NextRange ==
    \/ SyncYearOp(Years, RangeContracts, RangeAnnouncements)
    \/ GetContractsByDateRange(RangeQueries, RangeContracts, RangeAnnouncements)

SpecRange == Init /\ [][NextRange]_vars

---------------------------------------------------------------------------
(* Storage errors: two instants of one day, one year of the store; the     *)
(* remote source knows one contract and one announcement; the store may    *)
(* raise while a fetched list is written.                                  *)

\* the answers over the records S, and the store raising on each list of them
FaultAnswersOver(S, n) == AnswersOver(S, n) \cup {StoreError(l) : l \in Lists(S, n)}

FaultContractRecords == {Contract(str(1), d, str(7)) : d \in StoreDates}
FaultContracts == [y \in Years |-> FaultAnswersOver(FaultContractRecords, MaxRecs)]
FaultAnnouncements == [y \in Years |-> FaultAnswersOver(StoreAnnouncementRecords, MaxRecs)]

NextFault ==
    \/ SyncYearOp(StoreYears, FaultContracts, FaultAnnouncements)
    \/ GetContractsByDate(StoreDates, FaultContracts, FaultAnnouncements)
    \/ GetAnnouncementsByDate(StoreDates, FaultContracts, FaultAnnouncements)
    \/ Tick(1)

SpecFault == Init /\ [][NextFault]_vars

---------------------------------------------------------------------------
(* Automation: one day; one search is saved by the user; the remote source *)
(* knows three announcements, two of them matching the search, one of the  *)
(* two published the day before yesterday.                                 *)

AutoNames == SearchNames
AutoFilters == {[keyword |-> <<111, 98, 114, 97>>]}                        \* 'obra'
AutoDays == {1, 2}
AutoAnnouncement(n, date_str, text) ==
    [nAnuncio |-> n, dataPublicacao |-> date_str, descricaoAnuncio |-> text]
AutoRecords == <<AutoAnnouncement(str(1), DateStr(31, 12, 2024), <<79, 98, 114, 97>>),   \* 'Obra'
                 AutoAnnouncement(str(2), DateStr(30, 12, 2024), <<79, 98, 114, 97>>),
                 AutoAnnouncement(str(3), DateStr(31, 12, 2024), <<66, 101, 110, 115>>)>> \* 'Bens'
AutoAnswers == {Fail, List(AutoRecords)}

NextAuto ==
    \/ SaveSearchOp({DefaultAutomation}, AutoFilters)
    \/ StartRun(AutoNames, AutoDays, AutoAnswers, BOOLEAN)
    \/ Lookup(BOOLEAN)
    \/ Create(BOOLEAN)
    \/ Mark
    \/ FinishRun
    \/ Crash

SpecAuto == Init /\ [][NextAuto]_vars

---------------------------------------------------------------------------
(* The ledger in the runs of the automation: the search is saved, the      *)
(* token is set, and every run looks at the day before.                    *)

\* the remote source gives one announcement twice
AutoDuplicates == <<AutoRecords[1], AutoRecords[1]>>

\* the remote source answers with the announcements, once each or one twice
LedgerAnswers == {List(AutoRecords), List(AutoDuplicates)}

NextLedger ==
    \/ SaveSearchOp({DefaultAutomation}, AutoFilters)
    \/ StartRun({DefaultAutomation}, {1}, LedgerAnswers, {TRUE})
    \/ Lookup(BOOLEAN)
    \/ Create(BOOLEAN)
    \/ Mark
    \/ FinishRun
    \/ Crash

SpecLedger == Init /\ [][NextLedger]_vars

---------------------------------------------------------------------------
(* The automation with a search by CPV code and an announcement whose      *)
(* description is null.                                                    *)

BrokenRecords ==
    <<[nAnuncio |-> str(1), dataPublicacao |-> DateStr(31, 12, 2024),
       descricaoAnuncio |-> <<79, 98, 114, 97>>, CPVs |-> PyList(<<str(45)>>)],
      [nAnuncio |-> str(2), dataPublicacao |-> DateStr(31, 12, 2024),
       descricaoAnuncio |-> None, CPVs |-> PyList(<<str(45)>>)],
      [nAnuncio |-> str(3), dataPublicacao |-> DateStr(31, 12, 2024),
       CPVs |-> PyList(<<str(45)>>)]>>

\* the saved search: the CPV code of the three announcements, no keyword
BrokenFilters == {[cpv_codes |-> PyList(<<str(45)>>)]}

\* the remote source answers with the three announcements or with the last alone
BrokenAnswers == {List(BrokenRecords), List(SubSeq(BrokenRecords, 3, 3))}

NextBroken ==
    \/ SaveSearchOp({DefaultAutomation}, BrokenFilters)
    \/ StartRun({DefaultAutomation}, {1}, BrokenAnswers, {TRUE})
    \/ Lookup(BOOLEAN)
    \/ Create(BOOLEAN)
    \/ Mark
    \/ FinishRun
    \/ Crash

SpecBroken == Init /\ [][NextBroken]_vars

---------------------------------------------------------------------------
(* sync_year in two processes on one database.  Each _store_ call is one   *)
(* SQLite transaction: it takes the write lock at its first INSERT and     *)
(* gives it back at commit; a process that finds the lock taken waits, and *)
(* when the wait times out its INSERT raises, inside the try of sync_year. *)

\* what follows a try block of sync_year
AfterStore(pc) == IF pc \in {"contracts", "writing_contracts"} THEN "announcements" ELSE "done"

\* lines 146-153 and 160-164: the guard, and the two requests to the remote source
SyncYearEnter(years, CC, AA) ==
    \E p \in Procs, year \in years, force \in BOOLEAN, ansC \in CC, ansA \in AA :
      /\ sync.pc[p] = "idle"
      /\ sync' = IF SyncGuard(cache_metadata, now, year, force)
                 THEN [sync EXCEPT !.pc[p] = "contracts", !.year[p] = year,
                                   !.contracts[p] = ansC, !.announcements[p] = ansA]
                 ELSE [sync EXCEPT !.pc[p] = "done", !.year[p] = year]
      /\ UNCHANGED <<now, contracts, announcements, cache_metadata, lastOp, dayLog, syncedOn,
                     ingested, lastFilter, autoVars>>

\* the first INSERT of _store_contracts or _store_announcements takes the write
\* lock; a request that failed has left the try block before
SyncYearBegin ==
    \E p \in Procs :
      /\ sync.pc[p] \in {"contracts", "announcements"}
      /\ IF sync[sync.pc[p]][p].kind = "fail"
         THEN sync' = [sync EXCEPT !.pc[p] = AfterStore(@)]
         ELSE /\ sync.lock = 0
              /\ sync' = [sync EXCEPT !.lock = p,
                                      !.pc[p] = IF @ = "contracts" THEN "writing_contracts"
                                                ELSE "writing_announcements"]
      /\ UNCHANGED <<now, contracts, announcements, cache_metadata, lastOp, dayLog, syncedOn,
                     ingested, lastFilter, autoVars>>

\* the lock is taken for too long: sqlite3.OperationalError, caught by the
\* except Exception of the try block
SyncYearBusy ==
    \E p \in Procs :
      /\ sync.pc[p] \in {"contracts", "announcements"}
      /\ sync[sync.pc[p]][p].kind # "fail"
      /\ sync.lock \notin {0, p}
      /\ sync' = [sync EXCEPT !.pc[p] = AfterStore(@)]
      /\ UNCHANGED <<now, contracts, announcements, cache_metadata, lastOp, dayLog, syncedOn,
                     ingested, lastFilter, autoVars>>

\* conn.commit() of _store_contracts or _store_announcements
SyncYearCommit ==
    \E p \in Procs :
      /\ sync.pc[p] \in {"writing_contracts", "writing_announcements"}
      /\ LET table == IF sync.pc[p] = "writing_contracts" THEN "contracts" ELSE "announcements"
             list == IF table = "contracts"
                     THEN search_contracts_by_year(sync.contracts[p])
                     ELSE NormalizeAnnouncements(sync.announcements[p])
             w == IF table = "contracts"
                  THEN store_contracts(World, list, sync.year[p], now)
                  ELSE store_announcements(World, list, sync.year[p], now)
         IN  /\ contracts' = w.contracts
             /\ announcements' = w.announcements
             /\ cache_metadata' = w.cache_metadata
             /\ sync' = [sync EXCEPT !.lock = 0, !.pc[p] = AfterStore(@),
                                     !.commits = Append(@, [proc |-> p, table |-> table,
                                                            list |-> list, at |-> now])]
      /\ UNCHANGED <<now, lastOp, dayLog, syncedOn, ingested, lastFilter, autoVars>>

ConcurrentRecords == <<Contract(str(1), DateStr(25, 1, 2024), str(7)),
                       Contract(str(2), DateStr(25, 1, 2024), str(8))>>

\* the answers of the remote source to each of the two fetches
ConcurrentContracts ==
    {Fail, List(ConcurrentRecords), List(SubSeq(ConcurrentRecords, 1, 1))}
ConcurrentAnnouncements ==
    {Fail, List(<<Announcement(str(1), DateStr(25, 1, 2024), str(7))>>)}

NextConcurrent ==
    \/ SyncYearEnter({Year(2024)}, ConcurrentContracts, ConcurrentAnnouncements)
    \/ SyncYearBegin
    \/ SyncYearBusy
    \/ SyncYearCommit
    \/ Tick(TicksPerDay)

SpecConcurrent == Init /\ [][NextConcurrent]_vars

---------------------------------------------------------------------------
(* filter_contracts alone, on lists of contracts and announcements, with   *)
(* filter configurations of every shape.                                   *)

\* daily_automation.py and the application: filter_contracts(records, filters)
FilterOp(lists, configs) ==
    \E list \in lists, filters \in configs :
      /\ lastFilter' = [list |-> list, filters |-> filters,
                        result |-> filter_contracts(list, filters)]
      /\ UNCHANGED <<now, contracts, announcements, cache_metadata, lastOp, dayLog, syncedOn,
                     ingested, sync, autoVars>>

\* two contracts, an announcement, and a contract whose CPV code and supplier came
\* as one text each and not as a list
FilterRecords ==
    {[idContrato |-> str(1), objectoContrato |-> <<79, 98, 114, 97>>,
      cpv |-> PyList(<<<<51, 51, 54, 48, 48, 48, 48, 48, 45, 54, 45, 108, 111, 116, 50>>>>),
      adjudicatarios |-> PyList(<<<<53, 45, 65, 98>>>>), localExecucao |-> PyList(<<<<76, 120>>>>)],
     [idContrato |-> str(2), objectoContrato |-> <<66, 101, 110, 115>>,
      cpv |-> PyList(<<<<50, 52, 48, 48, 48, 48, 48, 48, 45, 52>>>>),
      adjudicatarios |-> PyList(<<<<54, 45, 97, 98>>>>), localExecucao |-> PyList(<<<<80, 111>>>>)],
     [nAnuncio |-> str(3), descricaoAnuncio |-> <<111, 98, 114, 97>>,
      CPVs |-> PyList(<<<<51, 51, 54, 48, 48, 48, 48, 48, 45, 54>>>>)],
     [idContrato |-> str(4), objectoContrato |-> <<66, 101, 110, 115>>,
      cpv |-> <<51, 51, 54, 48, 48, 48, 48, 48, 45, 54>>, adjudicatarios |-> <<53, 45, 65, 98>>]}

\* every field set, empty or missing
FilterConfigs ==
    LET keyword == {<<>>, <<51, 51, 54>>, <<103, 97, 115, 44, 32, 66, 69, 78, 83>>}    \* '336'; 'gas, BENS'
        fornecedor_nif == {<<>>, <<65, 98>>}
        location == {PyList(<<>>), PyList(<<<<108, 120>>>>)}
        cpv_codes == {PyList(<<>>), PyList(<<<<51, 51, 54, 48, 48, 48, 48, 48, 45, 54>>>>),
                      PyList(<<<<50, 52, 48, 48, 48, 48, 48, 48, 45, 52>>, <<51, 51, 54, 48, 48, 48, 48, 48, 45, 54>>>>)}
    IN  {[keyword |-> k, fornecedor_nif |-> n, location |-> l, cpv_codes |-> c] :
            k \in keyword, n \in fornecedor_nif, l \in location, c \in cpv_codes}
        \cup {[keyword |-> k] : k \in keyword}
        \cup {[fornecedor_nif |-> n, location |-> l] : n \in fornecedor_nif, l \in location}
        \cup {[cpv_codes |-> c] : c \in cpv_codes} \cup {<<>>}

\* the lists given to the filter: at most two records
FilterLists == Lists(FilterRecords, 2)

NextFilter == FilterOp(FilterLists, FilterConfigs)

SpecFilter == Init /\ [][NextFilter]_vars

---------------------------------------------------------------------------
(* Point queries: two days, two years of the store.  The remote source     *)
(* gives, for 2025, contracts and an announcement dated in 2024, and       *)
(* writes one date without its leading zeros.                              *)

\* 3/2/2024: the date 03/02/2024 as the remote source may write it
ShortDate == str(3) \o <<Slash>> \o str(2) \o <<Slash>> \o Year(2024)

PointDates == {DateStr(3, 2, 2024), ShortDate, DateStr(2, 1, 2025)}
PointContracts ==
    [y \in Years |->
        IF y = Year(2024) THEN {Fail, List(<<Contract(str(1), DateStr(3, 2, 2024), str(7))>>)}
        ELSE {List(<<Contract(str(2), ShortDate, str(7)),
                     Contract(str(3), DateStr(3, 2, 2024), str(7))>>)}]
PointAnnouncements ==
    [y \in Years |->
        IF y = Year(2024) THEN {List(<<Announcement(str(1), ShortDate, str(7))>>)}
        ELSE {Fail, List(<<Announcement(str(2), DateStr(3, 2, 2024), str(7))>>)}]

NextPoint ==
    \/ GetContractsByDate(PointDates, PointContracts, PointAnnouncements)
    \/ GetAnnouncementsByDate(PointDates, PointContracts, PointAnnouncements)
    \/ Tick(TicksPerDay)

SpecPoint == Init /\ [][NextPoint]_vars

---------------------------------------------------------------------------
(* Ranges over years: two days, two years of the store, one contract per   *)
(* year; ranges within a year, over both years, and from 2025 back to      *)
(* 2024.                                                                   *)

SpanQueries == {<<DateStr(20, 1, 2024), DateStr(10, 2, 2024)>>,
                <<DateStr(28, 12, 2024), DateStr(2, 1, 2025)>>,
                <<DateStr(2, 1, 2025), DateStr(2, 1, 2025)>>,
                <<DateStr(2, 1, 2025), DateStr(28, 12, 2024)>>}

\* per year a failure or the one contract of the turn of the year
SpanContracts ==
    [y \in Years |->
        {Fail, List(<<IF y = Year(2024) THEN Contract(str(3), DateStr(28, 12, 2024), str(7))
                      ELSE Contract(str(4), DateStr(2, 1, 2025), str(7))>>)}]

NextSpan ==
    \/ GetContractsByDateRange(SpanQueries, SpanContracts, RangeAnnouncements)
    \/ Tick(TicksPerDay)

SpecSpan == Init /\ [][NextSpan]_vars

---------------------------------------------------------------------------
(* Shapes of an answer: two instants of one day, one year of the store;    *)
(* the remote source gives a list, one record alone, or nothing.           *)

\* a failure, the lists of the records S and each record alone
ShapesOver(S) == AnswersOver(S, 1) \cup {Object(r) : r \in S}

ShapeContracts ==
    [y \in Years |-> ShapesOver({Contract(str(i), DateStr(25, 1, 2024), str(7)) : i \in 1..2})
                        \cup {Empty}]
ShapeAnnouncements ==
    [y \in Years |-> ShapesOver({Announcement(str(1), DateStr(25, 1, 2024), str(7))})
                        \cup {Empty}]

NextShape ==
    \/ SyncYearOp(StoreYears, ShapeContracts, ShapeAnnouncements)
    \/ Tick(1)

SpecShape == Init /\ [][NextShape]_vars

---------------------------------------------------------------------------
(* The automation on a store that was synced: two instants of one day; a   *)
(* sync of 2024 stores announcement 1 as it was first published, the       *)
(* automation is given it as it was published again.  No token is set.     *)

FrameContracts == [y \in Years |-> {Fail, List(<<>>)}]
FrameAnnouncements ==
    [y \in Years |-> {List(<<AutoAnnouncement(str(1), DateStr(31, 12, 2024), <<66, 101, 110, 115>>)>>)}]

NextFrame ==
    \/ SaveSearchOp({DefaultAutomation}, AutoFilters)
    \/ SyncYearOp(StoreYears, FrameContracts, FrameAnnouncements)
    \/ StartRun({DefaultAutomation}, {1}, AutoAnswers, {FALSE})
    \/ FinishRun
    \/ Tick(1)

SpecFrame == Init /\ [][NextFrame]_vars

---------------------------------------------------------------------------
(* The automation with and without a token: the search is saved, every run *)
(* looks at the day before, and no run is killed.                          *)

NextToken ==
    \/ SaveSearchOp({DefaultAutomation}, AutoFilters)
    \/ StartRun({DefaultAutomation}, {1}, LedgerAnswers, BOOLEAN)
    \/ Lookup(BOOLEAN)
    \/ Create(BOOLEAN)
    \/ Mark
    \/ FinishRun

SpecToken == Init /\ [][NextToken]_vars

---------------------------------------------------------------------------
(* The saved searches alone: the sidebar of the application saves, loads   *)
(* and deletes searches under two names, with two filter configurations.   *)

SearchFilters == {[keyword |-> <<111, 98, 114, 97>>, fornecedor_nif |-> <<>>,
                   location |-> <<>>, cpv_codes |-> PyList(<<>>)],
                  [keyword |-> <<>>, fornecedor_nif |-> str(5),
                   location |-> <<>>, cpv_codes |-> PyList(<<str(45)>>)]}

NextSearch ==
    \/ SaveSearchOp(SearchNames, SearchFilters)
    \/ LoadSearchOp(SearchNames)
    \/ DeleteSearchOp(SearchNames)
    \/ Tick(1)

SpecSearch == Init /\ [][NextSearch]_vars

---------------------------------------------------------------------------
(* Properties of the freshness policy *)

Whats == {"contracts", "announcements"}

CountCalls(calls, what, year) ==
    Cardinality({i \in 1..Len(calls) : calls[i].year = year /\ calls[i].what = what})

\* C2, as claimed: over the non-forced accesses of one calendar day the remote
\* source is asked for a year's contracts at most once and for its announcements
\* at most once, whatever the outcome of each fetch.
C2_AtMostOneResyncPerDay ==
    [][\A y \in Years, what \in Whats :
        (lastOp' # lastOp /\ ~lastOp'.force) =>
            CountCalls(lastOp'.calls, what, y) <= (IF dayLog[y].asked THEN 0 ELSE 1)]_vars

\* C2, amended: a non-forced access asks the remote source for a year's contracts
\* at most once and for its announcements at most once, and not at all once a
\* contracts fetch of that year has succeeded on the same calendar day.
C2_NoResyncAfterSuccess ==
    [][\A y \in Years, what \in Whats :
        (lastOp' # lastOp /\ ~lastOp'.force) =>
            CountCalls(lastOp'.calls, what, y) <= (IF dayLog[y].ok THEN 0 ELSE 1)]_vars

\* a non-forced query of a year fetched earlier the same day asked nothing
C2_Witness ==
    /\ lastOp.op = "get_contracts_by_date_range"
    /\ dayLog[lastOp.year].asked /\ dayLog[lastOp.year].ok
    /\ lastOp.calls = <<>>

\* C3: a year that has never been synced (no metadata row) is stale.
C3_NeverSyncedIsStale ==
    \A y \in Years :
        ~HasMetadata(cache_metadata, y) => should_refresh_cache(cache_metadata, now, y)

\* on a later day a sync of a year without a row went to the remote source and
\* failed: still no row, still stale
C3_Witness ==
    /\ date(now) > 0
    /\ lastOp.op = "sync_year" /\ ~lastOp.force /\ lastOp.calls # <<>>
    /\ ~HasMetadata(cache_metadata, lastOp.year)
    /\ should_refresh_cache(cache_metadata, now, lastOp.year)

\* C4: after a sync of a year in which both fetches succeeded on day D, the year
\* is fresh at every instant of D and stale as soon as the day is later than D.
C4_FreshUntilMidnight ==
    \A y \in Years :
        syncedOn[y] # NoDay =>
            (should_refresh_cache(cache_metadata, now, y) <=> date(now) > syncedOn[y])

\* a later instant of the day of the sync: the time of day moved, the year is fresh
C4_Witness ==
    \E y \in Years :
        /\ syncedOn[y] = date(now)
        /\ fromisoformat(MetadataOf(cache_metadata, y).last_fetched) < now
        /\ ~should_refresh_cache(cache_metadata, now, y)

---------------------------------------------------------------------------
(* Properties of the store *)

\* what a row holds apart from the instant it was written at
RowContent(row) == [k \in DOMAIN row \ {"last_updated"} |-> row[k]]
Content(table) == {RowContent(r) : r \in table}

\* C5: a forced sync of a year given the same remote data as the sync of that
\* year before it leaves the number of contract rows and of announcement rows,
\* and what each row holds, as they were (last_updated, the instant of the
\* write, apart).
C5_UpsertIdempotent ==
    [][(/\ lastOp' # lastOp
        /\ lastOp.op = "sync_year" /\ lastOp'.op = "sync_year" /\ lastOp'.force
        /\ BothFetched(lastOp.calls, lastOp'.year) /\ BothFetched(lastOp'.calls, lastOp'.year)
        /\ SameData(lastOp'.calls, lastOp.calls))
       => /\ Cardinality(contracts') = Cardinality(contracts)
          /\ Cardinality(announcements') = Cardinality(announcements)
          /\ Content(contracts') = Content(contracts)
          /\ Content(announcements') = Content(announcements)]_vars

\* the same data synced again, forced, at a later instant: the rows were rewritten
C5_Witness ==
    /\ lastOp.repeat /\ lastOp.force
    /\ \E r \in contracts : fromisoformat(r.last_updated) = now /\ now > 0
    /\ \E r \in announcements : fromisoformat(r.last_updated) = now
    /\ Cardinality(contracts) = 2

\* C6: a record given by the remote source in a year sync is returned by
\* get_contracts_by_date / get_announcements_by_date of its publication date as
\* a blob equal to the record as the remote source gave it.
C6_RoundTrip ==
    /\ lastOp.op = "get_contracts_by_date" =>
        \A c \in ingested.contracts : c.dataPublicacao = lastOp.start => c \in lastOp.result
    /\ lastOp.op = "get_announcements_by_date" =>
        \A a \in ingested.announcements : a.dataPublicacao = lastOp.start => a \in lastOp.result

\* a query answered from the rows of an earlier sync, with no remote call of its own
C6_Witness ==
    /\ lastOp.op = "get_contracts_by_date"
    /\ lastOp.calls = <<>>
    /\ Cardinality(lastOp.result) = 2
    /\ lastOp.result = ingested.contracts

Stored(table, list, key) ==
    \A i \in 1..Len(list) :
        (\A j \in (i + 1)..Len(list) : Get(list[j], key) # Get(list[i], key))
            => \E r \in table : json_loads(r.raw_data) = list[i]

\* C10: in a sync of a year both fetches are made, the contracts one first,
\* whichever of them fails; what a successful fetch gave is stored (with the
\* metadata row, for the contracts) though the other failed, and the sync
\* returns normally.
C10_FetchesIndependent ==
    \A y \in Years :
        Asked(lastOp.calls, y) =>
            LET cs == SelectSeq(lastOp.calls, LAMBDA c : c.year = y)
            IN  /\ Len(cs) = 2
                /\ cs[1].what = "contracts" /\ cs[2].what = "announcements"
                /\ ~lastOp.raised
                /\ cs[1].ok => /\ Stored(contracts, search_contracts_by_year(cs[1].answer), "idContrato")
                               /\ HasMetadata(cache_metadata, y)
                /\ cs[2].ok => Stored(announcements, NormalizeAnnouncements(cs[2].answer), "nAnuncio")

\* the contracts fetch failed, the announcements fetch gave a record, which is stored
C10_Witness ==
    /\ lastOp.op = "sync_year"
    /\ Len(lastOp.calls) = 2
    /\ ~lastOp.calls[1].ok /\ lastOp.calls[2].ok
    /\ NormalizeAnnouncements(lastOp.calls[2].answer) # <<>>
    /\ announcements # {}
    /\ contracts = {}

---------------------------------------------------------------------------
(* Properties of the range query *)

\* the calendar order of the dates DD/MM/YYYY, read as numbers
Chron(date_str) ==
    LET parts == split(date_str, Slash)
    IN  int(parts[3]) * 10000 + int(parts[2]) * 100 + int(parts[1])

\* the stored contracts published from start to end, both days included
PublishedWithin(table, start_date, end_date) ==
    {json_loads(r.raw_data) :
        r \in {x \in table : /\ x.data_publicacao # None
                             /\ Chron(start_date) <= Chron(x.data_publicacao)
                             /\ Chron(x.data_publicacao) <= Chron(end_date)}}

\* C7: get_contracts_by_date_range(start, end) returns exactly the stored
\* contracts whose publication date lies from start to end in calendar order,
\* both bounds included.
C7_RangeExact ==
    lastOp.op = "get_contracts_by_date_range" =>
        lastOp.result = PublishedWithin(contracts, lastOp.start, lastOp.end)

\* the same for the ranges that start and end in one year
RangeExactWithinYear ==
    (lastOp.op = "get_contracts_by_date_range" /\ YearOf(lastOp.start) = YearOf(lastOp.end)) =>
        lastOp.result = PublishedWithin(contracts, lastOp.start, lastOp.end)

\* C8: for a range that starts and ends in different years, every spanned year
\* synced, the query returns the matching stored contracts of every spanned
\* year, not only those of the start year.
C8_RangeSpansYears ==
    (/\ lastOp.op = "get_contracts_by_date_range"
     /\ int(YearOf(lastOp.start)) < int(YearOf(lastOp.end))
     /\ \A y \in int(YearOf(lastOp.start))..int(YearOf(lastOp.end)) :
            HasMetadata(cache_metadata, str(y)))
    => \A r \in contracts :
          (/\ r.data_publicacao # None
           /\ Chron(lastOp.start) <= Chron(r.data_publicacao)
           /\ Chron(r.data_publicacao) <= Chron(lastOp.end))
          => json_loads(r.raw_data) \in lastOp.result

---------------------------------------------------------------------------
(* Properties of the automation *)

CreateCalls(n_anuncio) ==
    Cardinality({i \in 1..Len(crmCalls) :
                    crmCalls[i].call = "create" /\ crmCalls[i].n_anuncio = n_anuncio})

\* C1: over the automation runs that consider an announcement number, a run
\* killed between creating the deal and marking the announcement included, the
\* CRM is asked to create a deal for that number once: never twice, and once
\* exactly for a number that is in the ledger.
C1_OneCreateCall ==
    \A i \in 1..Len(AutoRecords) :
        LET n_anuncio == AutoRecords[i].nAnuncio
        IN  /\ CreateCalls(n_anuncio) <= 1
            /\ is_announcement_processed(processed_announcements, n_anuncio)
                   => CreateCalls(n_anuncio) = 1

---------------------------------------------------------------------------
(* Properties of a sync in which a fetch fails *)

\* the last operation is a sync of a year in which the one fetch failed and the
\* other succeeded
OneFetchFailed(op) ==
    /\ op.op = "sync_year"
    /\ Len(op.calls) = 2
    /\ op.calls[1].ok # op.calls[2].ok

\* C11: after a sync of a year in which exactly one of the two fetches failed,
\* the contracts one or the announcements one, the metadata row of the year is
\* written.
C11_MetadataOnPartialFailure ==
    OneFetchFailed(lastOp) => HasMetadata(cache_metadata, lastOp.year)

\* C12: a sync of a year in which a fetch fails, the contracts one or the
\* announcements one, leaves the metadata row of the year, and with it the
\* staleness of the year, as they were before the sync.
C12_NoMetadataOnFailure ==
    [][(/\ lastOp' # lastOp
        /\ lastOp'.op = "sync_year"
        /\ \E i \in 1..Len(lastOp'.calls) : ~lastOp'.calls[i].ok)
       => /\ cache_metadata' = cache_metadata
          /\ should_refresh_cache(cache_metadata', now', lastOp'.year)
                 = should_refresh_cache(cache_metadata, now, lastOp'.year)]_vars

\* C11, amended: the metadata row of the year follows the contracts fetch alone.
\* When the contracts fetch succeeds the row is written, with the instant of the
\* sync and the number of contracts, though the announcements fetch fails; when
\* the contracts fetch fails the metadata is left as it was, though the
\* announcements fetch succeeds and its records are stored.
C11_MetadataFollowsContracts ==
    [][(lastOp' # lastOp /\ lastOp'.op = "sync_year" /\ Len(lastOp'.calls) = 2) =>
        LET year == lastOp'.year
            fetch == lastOp'.calls[1]
        IN  IF fetch.ok
            THEN /\ HasMetadata(cache_metadata', year)
                 /\ MetadataOf(cache_metadata', year) =
                        MetadataRow(year, now, search_contracts_by_year(fetch.answer))
            ELSE cache_metadata' = cache_metadata]_vars

\* the contracts fetch failed, the announcements fetch gave a record that is now
\* stored, and the year has no metadata row
C11_Witness ==
    /\ OneFetchFailed(lastOp)
    /\ ~lastOp.calls[1].ok
    /\ \E r \in announcements :
           <<json_loads(r.raw_data)>> = NormalizeAnnouncements(lastOp.calls[2].answer)
    /\ ~HasMetadata(cache_metadata, lastOp.year)

\* C12, amended: a sync of a year in which the contracts fetch fails leaves the
\* metadata as it was, and when it was not forced the year is still stale after
\* it, so the next non-forced access syncs the year again.  A sync in which the
\* contracts fetch succeeds and the announcements fetch fails does write the
\* row: the year is fresh after it.
C12_StaleAfterContractsFailure ==
    [][(lastOp' # lastOp /\ lastOp'.op = "sync_year" /\ Len(lastOp'.calls) = 2) =>
        LET year == lastOp'.year
        IN  /\ ~lastOp'.calls[1].ok =>
                   /\ cache_metadata' = cache_metadata
                   /\ ~lastOp'.force => should_refresh_cache(cache_metadata', now', year)
            /\ (lastOp'.calls[1].ok /\ ~lastOp'.calls[2].ok) =>
                   ~should_refresh_cache(cache_metadata', now', year)]_vars

\* a year synced on an earlier day: today's non-forced sync failed to fetch the
\* contracts, the row is the old one and the year is still stale
C12_Witness ==
    /\ lastOp.op = "sync_year" /\ ~lastOp.force
    /\ Len(lastOp.calls) = 2 /\ ~lastOp.calls[1].ok
    /\ HasMetadata(cache_metadata, lastOp.year)
    /\ date(fromisoformat(MetadataOf(cache_metadata, lastOp.year).last_fetched)) < date(now)
    /\ should_refresh_cache(cache_metadata, now, lastOp.year)

---------------------------------------------------------------------------
(* Properties of the queries whose lazy refresh fails *)

Queries == {"get_contracts_by_date", "get_announcements_by_date", "get_contracts_by_date_range"}

\* the fetch of the kind of records a query reads
Reads(op) == IF op = "get_announcements_by_date" THEN "announcements" ELSE "contracts"

\* the lazy refresh of the query failed to fetch, for some year, what the query reads
RefreshFailed(op) ==
    /\ op.op \in Queries
    /\ \E i \in 1..Len(op.calls) : op.calls[i].what = Reads(op.op) /\ ~op.calls[i].ok

\* the rows of a table published from start to end, both days included
RowsWithin(table, start_date, end_date) ==
    {x \in table : /\ x.data_publicacao # None
                   /\ Chron(start_date) <= Chron(x.data_publicacao)
                   /\ Chron(x.data_publicacao) <= Chron(end_date)}

\* a query whose refresh failed does not raise and returns every row that was
\* cached before it, is still there, and matches
BestEffort(before, after, op) ==
    RefreshFailed(op) =>
        /\ ~op.raised
        /\ \A r \in RowsWithin(before[Reads(op.op)] \cap after[Reads(op.op)], op.start, op.end) :
               json_loads(r.raw_data) \in op.result

\* C13: a query (by date, or over a range of dates) whose lazy refresh fails to
\* fetch a year does not raise and returns every matching row already cached;
\* for a range, the matching rows of every spanned year that is cached.
C13_BestEffortReads ==
    [][lastOp' # lastOp =>
        BestEffort([contracts |-> contracts, announcements |-> announcements],
                   [contracts |-> contracts', announcements |-> announcements'],
                   lastOp')]_vars

\* the same for the queries of one date and the ranges within one year
BestEffortWithinYear ==
    [][(/\ lastOp' # lastOp /\ lastOp'.op \in Queries
        /\ YearOf(lastOp'.start) = YearOf(lastOp'.end)) =>
        BestEffort([contracts |-> contracts, announcements |-> announcements],
                   [contracts |-> contracts', announcements |-> announcements'],
                   lastOp')]_vars

---------------------------------------------------------------------------
(* Properties of a sync in which the store raises *)

\* the store raised while the last operation was writing a fetched list
StoreRaised(op) == \E i \in 1..Len(op.calls) : StoreFails(op.calls[i].answer)

\* C14: a storage error raised while sync_year is writing rows or the metadata
\* row is not swallowed: sync_year raises it to its caller.
C14_StorageErrorPropagates ==
    (lastOp.op = "sync_year" /\ StoreRaised(lastOp)) => lastOp.raised

---------------------------------------------------------------------------
(* Saved searches *)

\* the row saved under a name
SearchRow(table, name) == CHOOSE r \in table : r.name = name

\* a call of the saved searches has just returned
SearchStep(op) == lastSearch' # lastSearch /\ lastSearch'.op = op

\* C15: save_search under a name that exists returns false and changes no saved
\* search; under a new name it returns true and load_search of the name then
\* yields the filters saved; and never are two searches saved under one name
C15_SaveKeepsNamesUnique ==
    [][/\ \A r1, r2 \in saved_searches' : r1.name = r2.name => r1 = r2
       /\ SearchStep("save") =>
            LET name == lastSearch'.name
            IN  IF HasSearch(saved_searches, name)
                THEN /\ ~lastSearch'.result
                     /\ saved_searches' = saved_searches
                ELSE /\ lastSearch'.result
                     /\ \A other \in saved_searches' :
                           other.name # name => other \in saved_searches
                     /\ \A other \in saved_searches : other \in saved_searches'
                     /\ LET loaded == load_search(saved_searches', name, now')
                        IN  loaded.found /\ {loaded.filters} = lastSearch'.filters]_vars

\* a save under a taken name, with other filters, was refused and the saved one kept
C15_Witness ==
    /\ lastSearch.op = "save" /\ ~lastSearch.result
    /\ HasSearch(saved_searches, lastSearch.name)
    /\ {json_loads(SearchRow(saved_searches, lastSearch.name).filters)} # lastSearch.filters
    /\ Cardinality(saved_searches) = 2

\* C16: delete_search of a saved name returns true and removes the row of that
\* name and no other; of a name not saved it returns false and changes nothing;
\* after a delete that returned true, load_search of the name finds nothing and
\* save_search under the name succeeds
C16_DeleteRemovesExactlyOne ==
    [][SearchStep("delete") =>
         LET name == lastSearch'.name
         IN  IF HasSearch(saved_searches, name)
             THEN /\ lastSearch'.result
                  /\ saved_searches' = saved_searches \ {SearchRow(saved_searches, name)}
                  /\ ~load_search(saved_searches', name, now').found
                  /\ \A filters \in SearchFilters :
                        LET again == save_search(saved_searches', name, filters, now')
                        IN  /\ again.result
                            /\ load_search(again.table, name, now').filters = filters
             ELSE /\ ~lastSearch'.result
                  /\ saved_searches' = saved_searches]_vars

\* one of two saved searches has been deleted, the other is still there
C16_Witness ==
    /\ lastSearch.op = "delete" /\ lastSearch.result
    /\ ~HasSearch(saved_searches, lastSearch.name)
    /\ Cardinality(saved_searches) = 1

\* the filters a name was saved under, by every save and delete so far
Book(name) == lastSearch.book[name]

\* C17: load_search returns the filters saved under the name, or nothing when the
\* name is not saved; it changes last_used of the row of the name and nothing else
C17_LoadOnlyTouchesLastUsed ==
    [][SearchStep("load") =>
         LET name == lastSearch'.name
         IN  /\ lastSearch'.loaded = Book(name)
             /\ lastSearch'.result = (Book(name) # {})
             /\ IF HasSearch(saved_searches, name)
                THEN LET row == SearchRow(saved_searches, name)
                     IN  /\ Book(name) # {}
                         /\ saved_searches' \ saved_searches
                               \subseteq {[row EXCEPT !.last_used = CURRENT_TIMESTAMP(now)]}
                         /\ saved_searches \ saved_searches' \subseteq {row}
                         /\ Cardinality(saved_searches') = Cardinality(saved_searches)
                ELSE /\ Book(name) = {}
                     /\ saved_searches' = saved_searches]_vars

\* a search was loaded while another one was saved, and one was looked for in vain
C17_Witness ==
    /\ lastSearch.op = "load" /\ lastSearch.result
    /\ Cardinality(saved_searches) = 2
    /\ SearchRow(saved_searches, lastSearch.name).last_used # None
    /\ \E other \in saved_searches : other.name # lastSearch.name /\ other.last_used = None

---------------------------------------------------------------------------
(* The ledger of the automation *)

\* the entry of the ledger for an announcement
Entry(ledger, n_anuncio) == CHOOSE e \in ledger : e.n_anuncio = n_anuncio

\* the calls made to the CRM for an announcement
CallsFor(calls, n_anuncio) == SelectSeq(calls, LAMBDA c : c.n_anuncio = n_anuncio)

\* C18: an announcement the ledger has is skipped: no step of a run calls the CRM
\* for it, neither to look its deal up nor to create one, and none changes its entry
C18_ProcessedIsSkipped ==
    [][\A e \in processed_announcements :
          /\ e \in processed_announcements'
          /\ CallsFor(crmCalls', e.n_anuncio) = CallsFor(crmCalls, e.n_anuncio)]_vars

\* the run has gone past the second copy of an announcement, having looked its
\* deal up once
C18_Witness ==
    /\ run.pc = "loop" /\ run.i > 1
    /\ \E k \in 1..(run.i - 1) :
          LET n_anuncio == run.queue[k].nAnuncio
          IN  /\ \E j \in 1..(k - 1) : run.queue[j].nAnuncio = n_anuncio
              /\ is_announcement_processed(processed_announcements, n_anuncio)
              /\ Len(SelectSeq(CallsFor(crmCalls, n_anuncio),
                               LAMBDA c : c.run = runs /\ c.call = "search")) = 1

\* the last call made to the CRM
LastCall(calls) == calls[Len(calls)]

\* a call has just been made to the CRM
Called(call) == Len(crmCalls') = Len(crmCalls) + 1 /\ LastCall(crmCalls').call = call

\* the ids of the deals the CRM has for an announcement
DealsOf(n_anuncio) == {d.id : d \in {x \in deals : x.numero_de_anuncio = n_anuncio}}

\* C19: when the lookup of an announcement finds a deal, the announcement is marked
\* with the id of that deal and the run goes to the next one; a deal is created
\* only right after a lookup by the same run that found none
C19_FoundDealIsMarked ==
    [][/\ (Called("search") /\ LastCall(crmCalls').ok
              /\ DealsOf(LastCall(crmCalls').n_anuncio) # {}) =>
            LET n_anuncio == LastCall(crmCalls').n_anuncio
            IN  /\ is_announcement_processed(processed_announcements', n_anuncio)
                /\ Entry(processed_announcements', n_anuncio).hubspot_deal_id
                      \in DealsOf(n_anuncio)
                /\ run'.pc = "loop" /\ run'.i = run.i + 1
                /\ deals' = deals
       /\ Called("create") =>
            /\ LastCall(crmCalls).call = "search"
            /\ LastCall(crmCalls).run = LastCall(crmCalls').run
            /\ LastCall(crmCalls).n_anuncio = LastCall(crmCalls').n_anuncio
            /\ LastCall(crmCalls).ok => DealsOf(LastCall(crmCalls').n_anuncio) = {}]_vars

\* the deal of an earlier run, killed before it marked the announcement, has been
\* found by the lookup of this run and the announcement marked with it
C19_Witness ==
    /\ Len(crmCalls) > 0
    /\ LastCall(crmCalls).call = "search" /\ LastCall(crmCalls).ok
    /\ LastCall(crmCalls).run = runs
    /\ \E e \in processed_announcements :
          /\ e.n_anuncio = LastCall(crmCalls).n_anuncio
          /\ Truthy(e.hubspot_deal_id)
          /\ e.hubspot_deal_id \in DealsOf(e.n_anuncio)
    /\ \A k \in 1..Len(crmCalls) : crmCalls[k].call = "create" => crmCalls[k].run < runs

\* the run was not killed in this step
NotKilled == run'.exit # "killed"

\* C20: an announcement whose deal the run tries to create is marked: the try
\* raises nothing and leads to the marking, which enters the id of the new deal
\* when there is one and null when there is none, and the run goes to the next
\* announcement; no deal is tried for an announcement the ledger has
C20_AttemptedIsMarked ==
    [][/\ (run.pc = "create" /\ run' # run /\ NotKilled) =>
            /\ run'.pc = "mark"
            /\ Called("create")
            /\ ~is_announcement_processed(processed_announcements, LastCall(crmCalls').n_anuncio)
            /\ Truthy(run'.result) = LastCall(crmCalls').ok
       /\ (run.pc = "mark" /\ run' # run /\ NotKilled) =>
            LET n_anuncio == LastCall(crmCalls).n_anuncio
            IN  /\ is_announcement_processed(processed_announcements', n_anuncio)
                /\ Entry(processed_announcements', n_anuncio).hubspot_deal_id = run.result
                /\ LastCall(crmCalls).ok => run.result \in DealsOf(n_anuncio)
                /\ ~LastCall(crmCalls).ok => run.result = None
                /\ run'.pc = "loop" /\ run'.i = run.i + 1]_vars

\* the numbers of the announcements the ledger has
Numbers(ledger) == {e.n_anuncio : e \in ledger}

\* the step ends the processing of the announcement the loop is at: the loop goes
\* on to the next one
EndsProcessing(n_anuncio) ==
    /\ run.pc \in {"loop", "mark"} /\ run'.pc = "loop" /\ run'.i = run.i + 1
    /\ run.i <= Len(run.queue) /\ GetOr(Current, "nAnuncio", Unknown) = n_anuncio

\* C21: the ledger has one entry per announcement; no step removes or changes an
\* entry, and an entry is added only by the step that ends the processing of its
\* announcement
C21_LedgerLifecycle ==
    [][/\ \A e1, e2 \in processed_announcements' : e1.n_anuncio = e2.n_anuncio => e1 = e2
       /\ processed_announcements \subseteq processed_announcements'
       /\ \A e \in processed_announcements' \ processed_announcements :
             /\ e.n_anuncio \notin Numbers(processed_announcements)
             /\ EndsProcessing(e.n_anuncio)
             /\ e.saved_search_name = run.name]_vars

\* two runs have ended; the first made the only entry of the ledger, and the
\* second, given the same announcement, called the CRM for nothing
C21_Witness ==
    /\ runs = 2 /\ run.pc = "idle" /\ run.exit = "success"
    /\ Len(daily_sync_log) = 2
    /\ Cardinality(processed_announcements) = 1
    /\ \E k \in 1..Len(crmCalls) : crmCalls[k].run = 1 /\ crmCalls[k].call = "create"
    /\ \A k \in 1..Len(crmCalls) : crmCalls[k].run = 1

---------------------------------------------------------------------------
(* The run log of the automation *)

\* a run has just started
Started == runs' = runs + 1

\* no filters are saved under the name, or an empty configuration is
NothingSaved(name) ==
    \A r \in saved_searches : r.name = name => DOMAIN json_loads(r.filters) = {}

\* neither the saved search of the run nor the fallback gives filters
NothingToLoad == NothingSaved(run'.name) /\ NothingSaved(DefaultAutomation)

\* the last row of the run log
LastRow(log) == log[Len(log)]

\* C22: a run that can load neither its saved search nor 'Default Automation' asks
\* the remote source nothing and calls the CRM for nothing, adds one row to the run
\* log, with status error, zero counts and an error message, and exits with an
\* error status
C22_NoFiltersIsFatal ==
    [][(Started /\ NothingToLoad) =>
         /\ run'.pc = "idle" /\ run'.exit = "error"
         /\ run'.asked = 0
         /\ UNCHANGED <<announcements, crmCalls, deals, processed_announcements>>
         /\ Len(daily_sync_log') = Len(daily_sync_log) + 1
         /\ SubSeq(daily_sync_log', 1, Len(daily_sync_log)) = daily_sync_log
         /\ LastRow(daily_sync_log') =
               [sync_date |-> strftime_ymd(date(now)), announcements_fetched |-> 0,
                announcements_new |-> 0, deals_created |-> 0, deals_failed |-> 0,
                sync_status |-> "error", error |-> TRUE]]_vars

\* two runs have ended at once for want of filters
C22_Witness ==
    /\ runs = 2 /\ run.pc = "idle" /\ run.exit = "error" /\ run.asked = 0
    /\ saved_searches = {}
    /\ Len(daily_sync_log) = 2
    /\ daily_sync_log[1].sync_status = "error" /\ daily_sync_log[2].sync_status = "error"
    /\ crmCalls = <<>>

\* the create calls of the current run with the given outcome
Creates(ok) ==
    Len(SelectSeq(crmCalls, LAMBDA c : c.call = "create" /\ c.run = runs /\ c.ok = ok))

\* a run that had its filters ends in this step, and not by being killed
RunEnds == run.pc # "idle" /\ run'.pc = "idle" /\ NotKilled

\* C23: a run that has loaded its filters writes one row to the run log, when it
\* ends: the row holds the numbers of announcements fetched and new and of deals
\* created and failed, its status is success when no creation failed and partial
\* otherwise, the exit status is success in both cases, and created + failed is at
\* most the number of announcements that match the filter
C23_OneRowPerRun ==
    [][/\ RunEnds =>
            /\ Len(daily_sync_log') = Len(daily_sync_log) + 1
            /\ LastRow(daily_sync_log') =
                  [sync_date |-> run.sync_date, announcements_fetched |-> run.fetched,
                   announcements_new |-> run.new, deals_created |-> Creates(TRUE),
                   deals_failed |-> Creates(FALSE),
                   sync_status |-> IF Creates(FALSE) = 0 THEN "success" ELSE "partial",
                   error |-> FALSE]
            /\ run'.exit = "success"
            /\ Creates(TRUE) + Creates(FALSE) <= Len(run.queue)
       /\ (run.pc # "idle" /\ ~RunEnds) => daily_sync_log' = daily_sync_log
       /\ (Started /\ run'.pc # "idle") => daily_sync_log' = daily_sync_log]_vars

---------------------------------------------------------------------------
(* sync_year side by side *)

\* the last transaction committed on a table
LastCommit(table) ==
    LET on == SelectSeq(sync.commits, LAMBDA c : c.table = table) IN on[Len(on)]

\* both processes went past the guard for the same year, the remote source gave
\* both the same contracts and the same announcements, and both are through
BothSynced ==
    /\ \A p \in Procs : sync.pc[p] = "done"
    /\ \A p, q \in Procs : /\ sync.year[p] = sync.year[q]
                           /\ sync.contracts[p] = sync.contracts[q]
                           /\ sync.announcements[p] = sync.announcements[q]
    /\ \A p \in Procs : sync.contracts[p].kind # "fail" /\ sync.announcements[p].kind # "fail"

\* C24: when two processes have run sync_year for one year side by side with the
\* same remote data, every contract and every announcement fetched has one row,
\* the one of the transaction that wrote it last, and the year has one metadata
\* row, the one of the last transaction on the contracts; and at no moment do
\* two rows share a contract id or an announcement number
C24_ConcurrentSync ==
    /\ \A r1, r2 \in contracts : r1.id_contrato = r2.id_contrato => r1 = r2
    /\ \A r1, r2 \in announcements : r1.n_anuncio = r2.n_anuncio => r1 = r2
    /\ BothSynced =>
         LET lastC == LastCommit("contracts")
             lastA == LastCommit("announcements")
         IN  /\ contracts = UpsertContracts({}, lastC.list, 1, lastC.at)
             /\ Cardinality(contracts) = Len(search_contracts_by_year(sync.contracts[1]))
             /\ announcements = UpsertAnnouncements({}, lastA.list, 1, lastA.at)
             /\ Cardinality(announcements) = Len(NormalizeAnnouncements(sync.announcements[1]))
             /\ cache_metadata = {MetadataRow(sync.year[1], lastC.at, lastC.list)}

\* both processes have written both tables, turn and turn about, the second
\* transaction on the contracts at a later instant than the first
C24_Witness ==
    /\ BothSynced
    /\ Len(sync.commits) = 4
    /\ sync.commits[1].proc = 1 /\ sync.commits[2].proc = 2
    /\ sync.commits[1].table = "contracts" /\ sync.commits[2].table = "contracts"
    /\ sync.commits[3].proc = 1
    /\ sync.commits[1].at < sync.commits[2].at
    /\ Cardinality(contracts) = 2

---------------------------------------------------------------------------
(* The refresh metadata *)

\* the day a year was last fetched on, by its metadata row
Day(metadata, year) == date(fromisoformat(MetadataOf(metadata, year).last_fetched))

\* the operation that has just returned fetched and stored the contracts of the year
WroteMetadata(year) == lastOp' # lastOp /\ Kept(lastOp'.calls, "contracts", year)

\* C25: a year has no metadata row or one row with the day D it was last fetched
\* on; a sync of the year whose contracts are stored on day D' leaves the row with
\* D', and a sync in which both fetches succeed does so; nothing else changes the
\* row; the row is never removed and its day never goes back; and the year is
\* stale exactly when it has no row or today is after D
C25_YearStateMachine ==
    [][\A y \in Years :
          /\ HasMetadata(cache_metadata, y) =>
                /\ HasMetadata(cache_metadata', y)
                /\ Day(cache_metadata', y) >= Day(cache_metadata, y)
          /\ IF WroteMetadata(y)
             THEN HasMetadata(cache_metadata', y) /\ Day(cache_metadata', y) = date(now')
             ELSE /\ HasMetadata(cache_metadata', y) = HasMetadata(cache_metadata, y)
                  /\ HasMetadata(cache_metadata, y) =>
                        MetadataOf(cache_metadata', y) = MetadataOf(cache_metadata, y)
          /\ (lastOp' # lastOp /\ BothFetched(lastOp'.calls, y)) => WroteMetadata(y)
          /\ should_refresh_cache(cache_metadata', now', y) =
                (~HasMetadata(cache_metadata', y) \/ date(now') > Day(cache_metadata', y))]_vars

\* a year synced on one day has been synced again on a later day
C25_Witness ==
    \E y \in Years :
        /\ HasMetadata(cache_metadata, y)
        /\ Day(cache_metadata, y) = date(now) /\ date(now) > 0
        /\ dayLog[y].ok
        /\ lastOp.op = "sync_year" /\ ~lastOp.force /\ BothFetched(lastOp.calls, y)

\* C26: cache_metadata has at most one row per year, and the row of a year holds
\* the instant of, and the number of contracts returned to, the last operation
\* that fetched and stored the contracts of the year
C26_MetadataInvariant ==
    [][/\ \A r1, r2 \in cache_metadata' : r1.year = r2.year => r1 = r2
       /\ \A y \in Years :
             IF WroteMetadata(y)
             THEN LET call == CHOOSE c \in {lastOp'.calls[i] : i \in 1..Len(lastOp'.calls)} :
                                  c.year = y /\ c.what = "contracts"
                  IN  {r \in cache_metadata' : r.year = y} =
                         {[year |-> y, last_fetched |-> isoformat(now),
                           record_count |-> Len(search_contracts_by_year(call.answer))]}
             ELSE {r \in cache_metadata' : r.year = y} = {r \in cache_metadata : r.year = y}]_vars

\* the row of a year has been rewritten by a later sync that was given one contract
C26_Witness ==
    \E y \in Years :
        /\ lastOp.op = "sync_year" /\ lastOp.year = y /\ lastOp.force
        /\ dayLog[y].ok /\ now > 0
        /\ Cardinality(cache_metadata) = 1
        /\ MetadataOf(cache_metadata, y).record_count = 1
        /\ MetadataOf(cache_metadata, y).last_fetched = isoformat(now)
        /\ Cardinality(contracts) = 2

---------------------------------------------------------------------------
(* filter_contracts *)

\* the field is missing from the filters, or is an empty text or an empty list
EmptyField(filters, key) == key \notin DOMAIN filters \/ filters[key] \in {<<>>, PyList(<<>>)}

\* the filters without a field
Without(filters, key) == [k \in DOMAIN filters \ {key} |-> filters[k]]

\* C28: with every field of the filters missing or empty filter_contracts returns
\* the list it was given; and a field that is missing or empty removes nothing:
\* the result is the one of the filters without the field
C28_EmptyFilterIsIdentity ==
    /\ (\A i \in 1..Len(FilterKeys) : EmptyField(lastFilter.filters, FilterKeys[i])) =>
          lastFilter.result = lastFilter.list
    /\ \A i \in 1..Len(FilterKeys) :
          EmptyField(lastFilter.filters, FilterKeys[i]) =>
             lastFilter.result =
                filter_contracts(lastFilter.list, Without(lastFilter.filters, FilterKeys[i]))

\* two records went through filters whose four fields are all there and all empty
C28_Witness ==
    /\ Len(lastFilter.list) = 2 /\ lastFilter.result = lastFilter.list
    /\ DOMAIN lastFilter.filters = {FilterKeys[i] : i \in 1..Len(FilterKeys)}
    /\ \A i \in 1..Len(FilterKeys) : EmptyField(lastFilter.filters, FilterKeys[i])

\* the CPV values a record holds in a field: the items of a list, or the one
\* value that came as a text
StoredCpvs(c, key) ==
    IF key \notin DOMAIN c THEN <<>>
    ELSE IF IsList(c[key]) THEN Items(c[key])
    ELSE IF c[key] \in {None, <<>>} THEN <<>>
    ELSE <<c[key]>>

\* the fields that hold CPV codes, in a contract and in an announcement
CpvFields == {"cpv", "CPVs"}

\* the fields that hold a text, in a contract and in an announcement
TextFields == {"objectoContrato", "descContrato", "descricaoAnuncio"}

\* for some accepted code, what is before its first '-' is part of a CPV value
\* of the record, in the field of the contracts or in that of the announcements
CpvAccepted(c, codes) ==
    \E j \in 1..Len(codes), key \in CpvFields :
        \E i \in 1..Len(StoredCpvs(c, key)) :
            Contains(split(codes[j], Dash)[1], StoredCpvs(c, key)[i])

\* the filters filter by CPV code only
OnlyCpv(filters) ==
    /\ ~EmptyField(filters, "cpv_codes")
    /\ \A i \in 1..Len(FilterKeys) :
          FilterKeys[i] # "cpv_codes" => EmptyField(filters, FilterKeys[i])

\* C29: under a filter by CPV codes a record is kept when, for some accepted code,
\* the part of the code before its first '-' is part of one of the CPV values the
\* record holds, in either CPV field, and is dropped otherwise
C29_CpvFilter ==
    OnlyCpv(lastFilter.filters) =>
        lastFilter.result =
            SelectSeq(lastFilter.list,
                      LAMBDA c : CpvAccepted(c, Items(lastFilter.filters.cpv_codes)))

\* the filters filter by supplier only
OnlySupplier(filters) ==
    /\ ~EmptyField(filters, "fornecedor_nif")
    /\ \A i \in 1..Len(FilterKeys) :
          FilterKeys[i] # "fornecedor_nif" => EmptyField(filters, FilterKeys[i])

\* the records of a list
Records(list) == {list[i] : i \in 1..Len(list)}

\* the text of the suppliers of a record: its list joined, or the one supplier
\* that came as a text
Suppliers(c) ==
    IF IsList(c.adjudicatarios) THEN join(Items(c.adjudicatarios), <<Space>>) ELSE c.adjudicatarios

\* C30: under a filter by supplier a record without a supplier field is kept, and
\* a record with the field is kept only if the supplier id is part, letter case
\* included, of its suppliers
C30_SupplierFilter ==
    OnlySupplier(lastFilter.filters) =>
        \A c \in Records(lastFilter.list) :
            IF "adjudicatarios" \notin DOMAIN c
            THEN c \in Records(lastFilter.result)
            ELSE c \in Records(lastFilter.result) =>
                    Contains(lastFilter.filters.fornecedor_nif, Suppliers(c))

\* the fields of the filters that are set
Active(filters) == {k \in DOMAIN filters : ~EmptyField(filters, k)}

\* the filters with one field only
Only(filters, key) == [k \in {key} |-> filters[k]]

\* filter_contracts keeps the record under the filters
Keeps(c, filters) == filter_contracts(<<c>>, filters) = <<c>>

\* the keyword is part, whatever the letter case, of a text of the record or of
\* its CPV codes
KeywordOccurs(c, kw) ==
    \/ \E key \in TextFields :
          key \in DOMAIN c /\ Contains(lower(kw), lower(c[key]))
    \/ \E key \in CpvFields :
          Contains(lower(kw), lower(join(StoredCpvs(c, key), <<Space>>)))

\* C27: filter_contracts keeps the records that every field set in the filters
\* keeps on its own; a list of CPV codes keeps what one of its codes keeps; and
\* comma-separated keywords keep the records in which one of the keywords occurs,
\* whatever the letter case, in a text or among the CPV codes, and no other
C27_FilterComposition ==
    /\ lastFilter.result =
          SelectSeq(lastFilter.list,
                    LAMBDA c : \A k \in Active(lastFilter.filters) :
                                   Keeps(c, Only(lastFilter.filters, k)))
    /\ ~EmptyField(lastFilter.filters, "cpv_codes") =>
          \A c \in Records(lastFilter.list) :
              Keeps(c, Only(lastFilter.filters, "cpv_codes")) <=>
                  \E j \in 1..Len(Items(lastFilter.filters.cpv_codes)) :
                      Keeps(c, [cpv_codes |-> PyList(<<Items(lastFilter.filters.cpv_codes)[j]>>)])
    /\ ~EmptyField(lastFilter.filters, "keyword") =>
          \A c \in Records(lastFilter.list) :
              Keeps(c, Only(lastFilter.filters, "keyword")) <=>
                  \E i \in 1..Len(Keywords(lastFilter.filters.keyword)) :
                      KeywordOccurs(c, Keywords(lastFilter.filters.keyword)[i])

\* the fields of a record that hold a list at the remote source
ListFields == {"cpv", "CPVs", "localExecucao", "adjudicatarios"}

\* the record with every such field that came as one text held as the list of
\* that text
Coerced(c) ==
    [k \in DOMAIN c |->
        IF k \in ListFields /\ ~IsList(c[k]) /\ c[k] \notin {None, <<>>}
        THEN PyList(<<c[k]>>) ELSE c[k]]

\* C31: a record in which the CPV codes, the place or the suppliers came as one
\* text is kept by filter_contracts exactly when the same record with the text
\* as a list of one item is
C31_ScalarAsList ==
    \A c \in Records(lastFilter.list) :
        c \in Records(lastFilter.result) <=> Keeps(Coerced(c), lastFilter.filters)

\* C32: the filter of the application returns, for the list and the filters of a
\* call of the filter of the automation, what that call returned, also when only
\* some of the four fields are in the filters
C32_SameFilter ==
    DOMAIN lastFilter.filters # {} =>
        app_filter_contracts(lastFilter.list, lastFilter.filters) =
            [raised |-> {}, result |-> lastFilter.result]

\* what follows the last '/' of a date
LastSegment(date_str) == split(date_str, Slash)[Len(split(date_str, Slash))]

\* the rows of a table whose date of publication is, as a text, the date
RowsOn(table, date_str) == {r \in table : r.data_publicacao = date_str}

\* a query by date is made in this step
PointQuery == lastOp' # lastOp /\ lastOp'.op \in {"get_contracts_by_date", "get_announcements_by_date"}

\* C33: get_contracts_by_date and get_announcements_by_date ask the remote source
\* for the year after the last '/' of the date when that year is stale, and for
\* nothing else; then they return the rows stored, by the sync of whichever year,
\* with a date of publication equal to the date as a text
C33_PointQuery ==
    [][PointQuery =>
        /\ \A i \in 1..Len(lastOp'.calls) : lastOp'.calls[i].year = LastSegment(lastOp'.start)
        /\ Asked(lastOp'.calls, LastSegment(lastOp'.start))
              <=> should_refresh_cache(cache_metadata, now, LastSegment(lastOp'.start))
        /\ lastOp'.op = "get_contracts_by_date" =>
              lastOp'.result = {json_loads(r.raw_data) : r \in RowsOn(contracts', lastOp'.start)}
        /\ lastOp'.op = "get_announcements_by_date" =>
              lastOp'.result = {json_loads(r.raw_data) : r \in RowsOn(announcements', lastOp'.start)}]_vars

\* the query of 03/02/2024 synced 2024 and returned the contract it had just
\* stored and the one of that date a sync of 2025 had stored, and not the stored
\* contract dated 3/2/2024
C33_Witness ==
    /\ lastOp.op = "get_contracts_by_date" /\ lastOp.start = DateStr(3, 2, 2024)
    /\ Kept(lastOp.calls, "contracts", Year(2024))
    /\ {c.idContrato : c \in lastOp.result} = {str(1), str(3)}
    /\ \E r \in contracts : r.data_publicacao = ShortDate

\* a query by range of dates is made in this step
RangeQuery == lastOp' # lastOp /\ lastOp'.op = "get_contracts_by_date_range"

\* C34: get_contracts_by_date_range asks the remote source for the years from the
\* year of the start to the year of the end that are stale, and for no other
\* year, in ascending order, and reads the rows after that; it asks for nothing
\* when the year of the start is after the year of the end
C34_RangeSyncs ==
    [][RangeQuery =>
        LET from == int(LastSegment(lastOp'.start))
            to == int(LastSegment(lastOp'.end))
            calls == lastOp'.calls
        IN  /\ \A y \in Years :
                  Asked(calls, y) <=> /\ from <= int(y) /\ int(y) <= to
                                      /\ should_refresh_cache(cache_metadata, now, y)
            /\ \A i, j \in 1..Len(calls) : i < j => int(calls[i].year) <= int(calls[j].year)
            /\ lastOp'.result = SelectByDateRange(contracts', lastOp'.start, lastOp'.end)
            /\ from > to => calls = <<>> /\ UNCHANGED <<contracts, announcements, cache_metadata>>]_vars

\* a range over both years, both stale: 2024 was asked for, then 2025, and a
\* contract stored by the query is in its result
C34_Witness ==
    /\ lastOp.op = "get_contracts_by_date_range"
    /\ Len(lastOp.calls) = 4
    /\ lastOp.calls[1].year = Year(2024) /\ lastOp.calls[4].year = Year(2025)
    /\ Kept(lastOp.calls, "contracts", Year(2024))
    /\ lastOp.result # {}

\* the last call to the CRM is a lookup that failed, and the run is about to
\* create the deal of the announcement looked up
LookupFailed ==
    /\ run.pc = "create" /\ Len(crmCalls) > 0
    /\ LastCall(crmCalls).call = "search" /\ ~LastCall(crmCalls).ok

\* C35: a lookup that fails is taken for no deal: the step marks no announcement
\* and does not end the run, which goes on to create the deal; and the next call
\* the run makes is the creation of the deal of that announcement
C35_FailedLookupCreates ==
    [][/\ (Called("search") /\ ~LastCall(crmCalls').ok) =>
              /\ processed_announcements' = processed_announcements
              /\ daily_sync_log' = daily_sync_log
              /\ run'.pc = "create" /\ run'.i = run.i /\ run'.exit = "running"
       /\ (LookupFailed /\ crmCalls' # crmCalls) =>
              /\ Called("create")
              /\ LastCall(crmCalls').n_anuncio = LastCall(crmCalls).n_anuncio
              /\ LastCall(crmCalls').run = LastCall(crmCalls).run]_vars

\* the lookup of an announcement failed although the CRM has its deal, then a
\* second deal was made for it, and the run went on
C35_Witness ==
    /\ Len(crmCalls) >= 2
    /\ crmCalls[Len(crmCalls) - 1].call = "search" /\ ~crmCalls[Len(crmCalls) - 1].ok
    /\ LastCall(crmCalls).call = "create" /\ LastCall(crmCalls).ok
    /\ LastCall(crmCalls).n_anuncio = crmCalls[Len(crmCalls) - 1].n_anuncio
    /\ Cardinality(DealsOf(LastCall(crmCalls).n_anuncio)) = 2
    /\ run.exit = "running"

\* the answer the last operation was given to its fetch of the contracts or of the
\* announcements, when it made that fetch
AnswerTo(op, what) ==
    {op.calls[i].answer : i \in {j \in 1..Len(op.calls) : op.calls[j].what = what}}

\* C36: one record given alone by the remote source is stored by sync_year as one
\* row, as the list of that record is: the row of its id is written anew with the
\* record as its blob, and every other row is left as it was; the metadata of the
\* year counts one contract.  When the announcements are answered by nothing, no
\* row of the announcements is written
C36_ObjectAsList ==
    [][(lastOp' # lastOp /\ lastOp'.op = "sync_year") =>
        /\ \A a \in AnswerTo(lastOp', "contracts") : a.kind = "object" =>
              /\ contracts' = {r \in contracts : r.id_contrato # a.item.idContrato}
                                 \cup {ContractRow(a.item, now)}
              /\ MetadataOf(cache_metadata', lastOp'.year).record_count = 1
        /\ \A a \in AnswerTo(lastOp', "announcements") :
              /\ a.kind = "object" =>
                    announcements' = {r \in announcements : r.n_anuncio # a.item.nAnuncio}
                                        \cup {AnnouncementRow(a.item, now)}
              /\ a.kind = "empty" => announcements' = announcements]_vars

\* a sync was given contract 2 alone and nothing for the announcements: contract 2
\* is stored next to contract 1, stored before, and the announcement stored
\* before is there as it was
C36_Witness ==
    /\ lastOp.op = "sync_year"
    /\ \E a \in AnswerTo(lastOp, "contracts") : a.kind = "object" /\ a.item.idContrato = str(2)
    /\ \E a \in AnswerTo(lastOp, "announcements") : a.kind = "empty"
    /\ {r.id_contrato : r \in contracts} = {str(1), str(2)}
    /\ \E r \in contracts : r.id_contrato = str(2) /\ fromisoformat(r.last_updated) = now
    /\ \E r \in announcements : fromisoformat(r.last_updated) < now

\* the contracts fetches the operation of this step made
ContractCalls == SelectSeq(lastOp'.calls, LAMBDA c : c.what = "contracts")

\* the rows of the contracts of a list are in the table as written at the instant
AllStored(table, list, t) ==
    \A i \in 1..Len(list) :
        \E r \in table : r.id_contrato = list[i].idContrato /\ r.last_updated = isoformat(t)

\* C37: the rows of the contracts of a sync and the metadata row of that sync are
\* written together or not at all.  A step changes the metadata of a year only
\* when its fetch of the contracts of that year succeeded and every contract
\* fetched is stored; a step that stores contracts writes the metadata row of
\* the year; and when the store raises while the contracts are written, neither
\* the contracts nor the metadata change.  No year has a metadata row before a
\* sync of its contracts
C37_RowsAndMetadataTogether ==
    [][lastOp' # lastOp =>
        /\ \A y \in Years :
              (HasMetadata(cache_metadata', y) /\
                  (~HasMetadata(cache_metadata, y)
                      \/ MetadataOf(cache_metadata', y) # MetadataOf(cache_metadata, y))) =>
                 \E i \in 1..Len(ContractCalls) :
                     /\ ContractCalls[i].year = y /\ ContractCalls[i].ok
                     /\ ~StoreFails(ContractCalls[i].answer)
                     /\ AllStored(contracts', search_contracts_by_year(ContractCalls[i].answer), now)
                     /\ MetadataOf(cache_metadata', y).last_fetched = isoformat(now)
        /\ contracts' # contracts =>
              \E i \in 1..Len(ContractCalls) :
                  /\ HasMetadata(cache_metadata', ContractCalls[i].year)
                  /\ MetadataOf(cache_metadata', ContractCalls[i].year).last_fetched = isoformat(now)
        /\ (\A i \in 1..Len(ContractCalls) : StoreFails(ContractCalls[i].answer)) =>
              contracts' = contracts /\ cache_metadata' = cache_metadata]_vars

\* the store raised while a sync was writing a contract: the table of the
\* contracts is empty and the year has no metadata row, although the
\* announcements of the same sync were stored
C37_Witness ==
    /\ lastOp.op = "sync_year"
    /\ \E i \in 1..Len(lastOp.calls) :
          /\ lastOp.calls[i].what = "contracts" /\ StoreFails(lastOp.calls[i].answer)
          /\ Len(lastOp.calls[i].answer.items) = 1
    /\ contracts = {} /\ cache_metadata = {}
    /\ announcements # {}

\* C38: no step of a run of the automation writes the metadata or the contracts,
\* and none changes or removes a row of the announcements: the rows it adds are
\* of announcements that had no row; so that no year becomes stale or fresh by it
C38_AutomationKeepsCache ==
    [][run' # run =>
        /\ cache_metadata' = cache_metadata
        /\ contracts' = contracts
        /\ announcements \subseteq announcements'
        /\ \A r \in announcements' \ announcements :
              ~\E x \in announcements : x.n_anuncio = r.n_anuncio
        /\ \A y \in Years : should_refresh_cache(cache_metadata', now', y)
                               = should_refresh_cache(cache_metadata, now, y)]_vars

\* a run has selected announcement 1, stored by a sync before, and announcement
\* 3: the row of 1 is the one of the sync, the row of 3 is of the run, and 2024
\* is as fresh as the sync left it
C38_Witness ==
    /\ run.pc = "loop" /\ run.new = 2
    /\ \E r \in announcements :
          /\ r.n_anuncio = str(1) /\ fromisoformat(r.last_updated) < now
          /\ json_loads(r.raw_data).descricaoAnuncio = <<66, 101, 110, 115>>
    /\ \E r \in announcements : r.n_anuncio = str(3) /\ fromisoformat(r.last_updated) = now
    /\ ~should_refresh_cache(cache_metadata, now, Year(2024))

\* a run that found announcements matching its filters and no token
NoTokenRun == run.pc = "loop" /\ ~run.token /\ Len(run.queue) > 0

\* the announcement every answer of the remote source holds: it is of the day
\* before the run and matches the saved filters
Given == AutoRecords[1]

\* C39: a run that has no token calls the CRM for nothing and marks nothing: its
\* only step writes the row of the run, with no deal created and none failed,
\* and ends it; the announcements that matched are not in the ledger, and a run
\* that starts while they are not, and is given them, takes them again
C39_NoTokenNoMarking ==
    [][/\ NoTokenRun =>
              /\ \A i \in 1..Len(run.queue) :
                    run.queue[i].nAnuncio \notin Numbers(processed_announcements)
              /\ run' # run =>
                    /\ UNCHANGED <<crmCalls, deals, processed_announcements>>
                    /\ run'.pc = "idle" /\ run'.exit = "success"
                    /\ Len(daily_sync_log') = Len(daily_sync_log) + 1
                    /\ LastRow(daily_sync_log').deals_created = 0
                    /\ LastRow(daily_sync_log').deals_failed = 0
                    /\ LastRow(daily_sync_log').announcements_new = run.new
       /\ (Started /\ run'.pc = "loop"
             /\ Given.nAnuncio \notin Numbers(processed_announcements)) =>
              Given \in Records(run'.queue)]_vars

\* the first run found the announcement and no token, and left the ledger empty;
\* the second run, which has a token, has taken the announcement again
C39_Witness ==
    /\ runs = 2 /\ run.pc = "loop" /\ run.token /\ run.i = 1
    /\ Given \in Records(run.queue)
    /\ crmCalls = <<>> /\ processed_announcements = {}
    /\ Len(daily_sync_log) = 1
    /\ daily_sync_log[1].announcements_new > 0 /\ daily_sync_log[1].deals_created = 0
    /\ daily_sync_log[1].deals_failed = 0 /\ daily_sync_log[1].sync_status = "success"

\* the sequence is the other one with some of its items left out, in their order
RECURSIVE SubSequence(_, _)
SubSequence(sub, seq) ==
    IF Len(sub) = 0 THEN TRUE
    ELSE IF Len(seq) = 0 THEN FALSE
    ELSE IF sub[1] = seq[1] THEN SubSequence(Tail(sub), Tail(seq))
    ELSE SubSequence(sub, Tail(seq))

\* the filters with one more field set, or with a field set to another value
Stronger(filters) ==
    {f \in FilterConfigs :
        /\ DOMAIN filters \subseteq DOMAIN f
        /\ \A k \in DOMAIN filters : EmptyField(filters, k) \/ f[k] = filters[k]}

====
